---- MODULE Spec2Model ----
(***************************************************************************)
(* Model of the OCD export codec (OcdFileExport, ocd_file_export.cpp).     *)
(*                                                                         *)
(* One export call is a run of the state machine Spec: doExport selects    *)
(* the format, exportImplementation sets up, then exportSetup, one step    *)
(* per symbol of exportSymbols, one step per object of exportObjects,      *)
(* exportExtras and the final stream write.  The pure conversion           *)
(* functions are operators; SpecPoint applies convertPointMember to        *)
(* bounded inputs.                                                         *)
(***************************************************************************)
EXTENDS Integers, Sequences, FiniteSets, TLC

\* ------------------------------------------------------------------ bounds

MaxCoord == 60          \* coordinates tried around zero: -MaxCoord..MaxCoord
MaxSymbols == 2         \* longest symbol list of a map
MaxObjects == 2         \* longest object list of a map
MaxAlignment == 1       \* horizontal alignments tried: 0..MaxAlignment
MaxDupAddr == 2         \* heap addresses a symbol duplicate can get
MaxSymbolColors == 2    \* most map colors one symbol contains
MaskColors == 9         \* colors of the maps that exercise the color bitmask

\* ------------------------------------------------------- program constants

Int23 == 8388608        \* 0x7fffff + 1: the mask applied by convertPointMember
PointShift == 256       \* << 8 in convertPointMember
Int15 == 32768          \* qint16: -Int15 .. Int15 - 1
MaxColorsV8 == 256      \* version 8 color table limit
MaxNotesV8 == 32768     \* version 8 limit of notes plus terminating zero
TruncateNotesV8 == 23767 \* argument of notes.truncate() in exportSetup<V8>
TagScalePar == 1039     \* parameter string: georeferencing and grid
TagNotesV9 == 11        \* parameter string: map notes, versions 9 and 10
TagNotesV11 == 1061     \* parameter string: map notes, versions 11 and 12
TagColor == 9           \* parameter string: color
MaskWordBits == 8       \* bits of one word of BaseSymbol::colors (quint8)

\* ----------------------------------------------------------------- helpers

\* C++ integer division: the quotient is truncated toward zero (b > 0).
TruncDiv(a, b) == IF a >= 0 THEN a \div b ELSE -((-a) \div b)

Range(f) == { f[x] : x \in DOMAIN f }

SeqsUpTo(S, n) == UNION { [1..k -> S] : k \in 0..n }

Min(a, b) == IF a <= b THEN a ELSE b

\* -------------------------------------------------------------- conversion

\* The body of convertPointMember with the value rounded toward zero in both
\* branches, as a plain (value+5)/10 would.
convertPointMember_trunc(value) ==
    IF TruncDiv(value + 5, 10) < 0
    THEN (-2147483647 - 1) + ((TruncDiv(value + 5, 10) % Int23) * PointShift)
    ELSE (TruncDiv(value + 5, 10) % Int23) * PointShift

\* constexpr qint32 convertPointMember(qint32 value).
\* 0x7fffffu & quint32(q) is q modulo 2^23; 0x80000000u | x, read back as
\* qint32, is x - 2^31 for x < 2^31.
convertPointMember(value) ==
    IF value < -5
    THEN (-2147483647 - 1) + ((TruncDiv(value - 4, 10) % Int23) * PointShift)
    ELSE (TruncDiv(value + 5, 10) % Int23) * PointShift

\* Ocd::OcdPoint32 convertPoint(qint32 x, qint32 y): the y axis is inverted.
convertPoint(x, y) == [x |-> convertPointMember(x), y |-> convertPointMember(-y)]

\* constexpr qint16 convertSize(qint32 size): the quotient, rounded toward
\* zero, converted to 16 bits.
convertSize(size) == ((TruncDiv(size + 5, 10) + Int15) % (2 * Int15)) - Int15

\* -------------------------------------------------------------- the map

\* A symbol of the model: its type, its two number components (-1: unset),
\* whether it contains the registration color, the map colors it contains
\* (positions in the map's color list), the line attributes the combined
\* symbol predicates read, and the parts of a combined symbol.
NoLine == [border |-> FALSE, dashed |-> FALSE, pointed_cap |-> FALSE,
           point_symbols |-> FALSE, filled |-> FALSE]
PlainLine == [NoLine EXCEPT !.filled = TRUE]
DoubleLine == [NoLine EXCEPT !.filled = TRUE, !.border = TRUE]
DashedLine == [NoLine EXCEPT !.filled = TRUE, !.dashed = TRUE]

Sym(type, number, reg, colors, line, parts) ==
    [type |-> type, number |-> number, reg |-> reg, colors |-> colors,
     line |-> line, parts |-> parts]

\* A part of a combined symbol: unset (null), private (owned by the combined
\* symbol, sym is the part) or public (idx is its position in the map's
\* symbol list).
NoSym == Sym("NoSymbol", <<-1, -1>>, FALSE, {}, NoLine, <<>>)
NullPart == [null |-> TRUE, priv |-> FALSE, idx |-> 0, sym |-> NoSym]
PrivatePart(sym) == [null |-> FALSE, priv |-> TRUE, idx |-> 0, sym |-> sym]
PublicPart(j) == [null |-> FALSE, priv |-> FALSE, idx |-> j, sym |-> NoSym]

\* Symbol identities (the pointers that key symbol_numbers): a symbol of the
\* map's list, a private part of a combined symbol, a heap duplicate.
MapKey(i) == [k |-> "map", i |-> i, p |-> 0]
PartKey(i, p) == [k |-> "part", i |-> i, p |-> p]
DupKey(a) == [k |-> "dup", i |-> a, p |-> 0]

\* CombinedSymbol::getPart(k), as symbol and as identity.
PartSym(m, part) == IF part.priv THEN part.sym ELSE m.symbols[part.idx]
PartId(i, k, part) == IF part.priv THEN PartKey(i, k) ELSE MapKey(part.idx)

\* Symbol::containsColor(registration color); a combined symbol contains the
\* colors of its parts.
RECURSIVE containsRegistration(_, _)
containsRegistration(m, sym) ==
    \/ sym.reg
    \/ \E k \in DOMAIN sym.parts :
          /\ ~sym.parts[k].null
          /\ containsRegistration(m, PartSym(m, sym.parts[k]))

\* Map::isColorUsedByASymbol(Map::getRegistrationColor()).
isColorUsedByASymbol(m) ==
    \E i \in DOMAIN m.symbols : containsRegistration(m, m.symbols[i])

\* Symbol::getContainedTypes() & Symbol::Area.
containsArea(m, sym) ==
    \/ sym.type = "Area"
    \/ \E k \in DOMAIN sym.parts :
          /\ ~sym.parts[k].null
          /\ PartSym(m, sym.parts[k]).type = "Area"

\* Map::findColorIndex: the position of a color of the map's list; negative
\* for any other color (nullptr, the registration color, a foreign color).
findColorIndex(m, color) == IF color \in 0..(m.num_colors - 1) THEN color ELSE -1

\* ------------------------------------------------------------ convertColor

\* convertColor without the shift for the registration color.
convertColor_noshift(m, uses_reg, color) ==
    IF findColorIndex(m, color) >= 0 THEN findColorIndex(m, color) ELSE 0

\* quint16 OcdFileExport::convertColor(const MapColor* color) const.
convertColor(m, uses_reg, color) ==
    IF findColorIndex(m, color) >= 0
    THEN (IF uses_reg THEN findColorIndex(m, color) + 1 ELSE findColorIndex(m, color))
    ELSE 0

\* --------------------------------------------------------- setupBaseSymbol

\* OcdBaseSymbol::symbol_number_factor and the length of BaseSymbol::colors
\* of the record layouts (ocd_types_v8.h, ocd_types_v9.h).
symbol_number_factor(version) == IF version = 8 THEN 10 ELSE 1000
MaskWords(version) == IF version = 8 THEN 32 ELSE 14

\* The number setupBaseSymbol starts from: the packed number components,
\* with 0.0 replaced by 1.
requestedNumber(sym, version) ==
    LET number == sym.number[1] * symbol_number_factor(version)
                  + (IF sym.number[2] >= 0
                     THEN sym.number[2] % symbol_number_factor(version)
                     ELSE 0)
    IN  IF number # 0 THEN number ELSE 1

\* while (any_of(symbol_numbers, matches_symbol_number)) ++number;
RECURSIVE firstUnused(_, _)
firstUnused(number, used) ==
    IF number \in used THEN firstUnused(number + 1, used) ELSE number

\* symbol_numbers[key] = number.
Put(f, key, value) ==
    [x \in DOMAIN f \cup {key} |-> IF x = key THEN value ELSE f[x]]

\* The loop over the map colors that sets the bits of the used-color mask.
\* The mask is the set of the numbers of its set bits, counted across the
\* words; (word, bit) is the position of bitpos and bitmask. One step covers
\* the iterations up to the next overflow of bitmask.
RECURSIVE colorMaskLoop(_, _, _, _, _, _, _)
colorMaskLoop(c, word, bit, acc, sym, num_colors, words) ==
    IF c >= num_colors THEN acc
    ELSE LET n == Min(num_colors - c, MaskWordBits - bit)
             acc1 == acc \cup { word * MaskWordBits + bit + d :
                                d \in { e \in 0..(n - 1) : (c + e) \in sym.colors } }
         IN  IF bit + n < MaskWordBits
             THEN acc1
             \* bitmask == 0: bitmask = 1; ++bitpos; if (++bitpos == last) break;
             ELSE IF word + 2 = words
                  THEN acc1
                  ELSE colorMaskLoop(c + n, word + 2, 0, acc1, sym, num_colors, words)

\* The "set of used colors" part of setupBaseSymbol.
usedColorMask(m, uses_reg, sym, version) ==
    IF uses_reg /\ sym.reg
    THEN colorMaskLoop(0, 0, 1, {0}, sym, m.num_colors, MaskWords(version))
    ELSE colorMaskLoop(0, 0, 0, {}, sym, m.num_colors, MaskWords(version))

\* The export context threaded through the symbol export: symbol_numbers
\* (sn), the records inserted into file.symbols() (syms), text_format_mapping
\* (tfm), the warnings (warn) and the history of numbers assigned by
\* setupBaseSymbol (asg).
\* env: the values fixed for one export: the map (m), ocd_version (version)
\* and uses_registration_color (uses_reg).

\* setupBaseSymbol: assigns the number and registers it under the symbol's
\* identity.
setupBaseSymbol(ctx, key, sym, env) ==
    LET number == firstUnused(requestedNumber(sym, env.version), Range(ctx.sn))
    IN  [ctx EXCEPT !.sn = Put(@, key, number),
                    !.asg = Append(@, [key |-> key, number |-> number])]

\* The record a symbol export function returns, as far as the model reads it.
SymbolRecord(ctx, key, sym, type, env) ==
    [number |-> ctx.sn[key], type |-> type, key |-> key, src |-> sym,
     colors |-> usedColorMask(env.m, env.uses_reg, sym, env.version),
     alignment |-> 0, border_on |-> FALSE, border_symbol |-> 0,
     framing |-> FALSE, double_line |-> FALSE]

\* exportPointSymbol, exportAreaSymbol, exportLineSymbol and the
\* two-argument exportTextSymbol: setupBaseSymbol, then the typed record.
exportPointSymbol(ctx, key, sym, env) ==
    LET c == setupBaseSymbol(ctx, key, sym, env)
    IN  [ctx |-> c, rec |-> SymbolRecord(c, key, sym, "Point", env)]

exportAreaSymbol(ctx, key, sym, env) ==
    LET c == setupBaseSymbol(ctx, key, sym, env)
    IN  [ctx |-> c, rec |-> SymbolRecord(c, key, sym, "Area", env)]

exportLineSymbol(ctx, key, sym, env) ==
    LET c == setupBaseSymbol(ctx, key, sym, env)
    IN  [ctx |-> c, rec |-> SymbolRecord(c, key, sym, "Line", env)]

exportTextSymbolAligned(ctx, key, sym, alignment, env) ==
    LET c == setupBaseSymbol(ctx, key, sym, env)
    IN  [ctx |-> c,
         rec |-> [SymbolRecord(c, key, sym, "Text", env) EXCEPT !.alignment = alignment]]

\* file.symbols().insert(ocd_symbol).
insertSymbol(r) == [r.ctx EXCEPT !.syms = Append(@, r.rec)]

addWarning(ctx, text) == [ctx EXCEPT !.warn = Append(@, text)]

\* -------------------------------------------------------- exportTextSymbol

\* handle_alignment applied by Map::applyOnMatchingObjects to the objects
\* o, o+1, ... that have the text symbol at position i of the symbol list;
\* offset is the length of text_format_mapping on entry.
RECURSIVE handleAlignments(_, _, _, _, _, _)
handleAlignments(ctx, o, offset, i, sym, env) ==
    IF o > Len(env.m.objects) THEN ctx
    ELSE IF env.m.objects[o].symbol # i
         THEN handleAlignments(ctx, o + 1, offset, i, sym, env)
         ELSE LET alignment == env.m.objects[o].alignment
                  known == \E x \in (offset + 1)..Len(ctx.tfm) :
                              /\ ctx.tfm[x].symbol = i
                              /\ ctx.tfm[x].alignment = alignment
                  c1 == insertSymbol(exportTextSymbolAligned(ctx, MapKey(i), sym, alignment, env))
                  c2 == [c1 EXCEPT !.tfm = Append(@, [symbol |-> i,
                                                      alignment |-> alignment,
                                                      ocd_number |-> c1.sn[MapKey(i)]])]
              IN  IF known
                  THEN handleAlignments(ctx, o + 1, offset, i, sym, env)
                  ELSE handleAlignments(c2, o + 1, offset, i, sym, env)

\* exportTextSymbol(file, text_symbol): one record per alignment in use, or
\* one record with alignment 0 for a symbol no object uses.
exportTextSymbol(ctx, i, sym, env) ==
    LET c == handleAlignments(ctx, 1, Len(ctx.tfm), i, sym, env)
    IN  IF Len(c.tfm) = Len(ctx.tfm)
        THEN insertSymbol(exportTextSymbolAligned(c, MapKey(i), sym, 0, env))
        ELSE c

\* ---------------------------------------------------- exportCombinedSymbol

\* make_duplicate: a copy of the part with the number components of the
\* combined symbol.
make_duplicate(part_sym, combined) == [part_sym EXCEPT !.number = combined.number]

\* The border clone: setNumberComponent(1, getNumberComponent(1) + 1).
border_duplicate(part_sym, combined) ==
    [part_sym EXCEPT !.number = <<combined.number[1], combined.number[2] + 1>>]

maybe_framing(sym) ==
    /\ ~sym.line.border
    /\ ~sym.line.dashed
    /\ ~sym.line.pointed_cap
    /\ ~sym.line.point_symbols

maybe_double_filling(sym) ==
    /\ sym.line.border
    /\ sym.line.filled
    /\ ~sym.line.pointed_cap
    /\ ~sym.line.point_symbols

\* The positions of the non-null parts of a combined symbol, in order.
RECURSIVE nonNullParts(_, _)
nonNullParts(parts, k) ==
    IF k > Len(parts) THEN <<>>
    ELSE IF parts[k].null THEN nonNullParts(parts, k + 1)
         ELSE <<k>> \o nonNullParts(parts, k + 1)

\* std::swap without effect.
swap_none(s, a, b) == s

swap(s, a, b) == [s EXCEPT ![a] = s[b], ![b] = s[a]]

\* Giving up on a combined symbol without the warning.
unhandledCombined_silent(ctx) == ctx

unhandledCombined(ctx) == addWarning(ctx, "Unhandled combined symbol")

\* case 1: a single part is exported as a duplicate that carries the
\* combined symbol's identity; dup is the address of the duplicate.
exportCombinedSingle(ctx, i, combined, part, dup, env) ==
    LET duplicate == make_duplicate(PartSym(env.m, part), combined)
        r == IF duplicate.type = "Area"
             THEN exportAreaSymbol(ctx, DupKey(dup), duplicate, env)
             ELSE exportLineSymbol(ctx, DupKey(dup), duplicate, env)
        c == insertSymbol(r)
    IN  IF duplicate.type \in {"Area", "Line"}
        THEN [c EXCEPT !.sn = Put(@, MapKey(i), c.sn[DupKey(dup)])]
        ELSE unhandledCombined(ctx)

\* The area record without the border attributes.
exportCombinedAreaSymbol_plain(ctx, key, area, border_key, env) ==
    exportAreaSymbol(ctx, key, area, env)

\* exportCombinedAreaSymbol: the area record with border_on_V9 and the
\* border's number (symbol_numbers[line_symbol]).
exportCombinedAreaSymbol(ctx, key, area, border_key, env) ==
    LET r == exportAreaSymbol(ctx, key, area, env)
    IN  [ctx |-> r.ctx,
         rec |-> [r.rec EXCEPT !.border_on = TRUE,
                               !.border_symbol = r.ctx.sn[border_key]]]

\* Area symbol with border, since OCD V9: area_k and border_k are the
\* positions of the two parts in the combined symbol; bdup and dup are the
\* addresses of the border clone and of the area duplicate.
exportCombinedArea(ctx, i, combined, area_k, border_k, bdup, dup, env) ==
    LET border_part == combined.parts[border_k]
        border_id == PartId(i, border_k, border_part)
        exported == border_id \in DOMAIN ctx.sn
        private == border_part.priv
        border_key == IF ~exported /\ private THEN DupKey(bdup) ELSE border_id
        border_sym == IF ~exported /\ private
                      THEN border_duplicate(PartSym(env.m, border_part), combined)
                      ELSE PartSym(env.m, border_part)
        c1 == IF exported THEN ctx
              ELSE insertSymbol(exportLineSymbol(ctx, border_key, border_sym, env))
        duplicate == make_duplicate(PartSym(env.m, combined.parts[area_k]), combined)
        c2 == insertSymbol(exportCombinedAreaSymbol(c1, DupKey(dup), duplicate, border_key, env))
    IN  [c2 EXCEPT !.sn = Put(@, MapKey(i), c2.sn[DupKey(dup)])]

\* exportCombinedLineSymbol: the line record of the main line with the
\* framing and double line attributes.
exportCombinedLineSymbol(ctx, key, main_line, has_double, env) ==
    LET r == exportLineSymbol(ctx, key, main_line, env)
    IN  [ctx |-> r.ctx,
         rec |-> [r.rec EXCEPT !.framing = TRUE, !.double_line = has_double]]

\* The all-lines branch: ks holds the positions of parts[0..2] in the
\* combined symbol, ps the part symbols.
exportCombinedLines(ctx, i, combined, ps, num_parts, dup, env) ==
    LET no_double == num_parts = 3 /\ ~maybe_double_filling(ps[3])
        ps1 == IF ~no_double THEN ps
               ELSE IF maybe_double_filling(ps[1]) THEN swap(ps, 1, 3)
               ELSE IF maybe_double_filling(ps[2]) THEN swap(ps, 2, 3)
               ELSE ps
        give_up == /\ no_double
                   /\ ~maybe_double_filling(ps[1])
                   /\ ~maybe_double_filling(ps[2])
        ps2 == IF ~maybe_framing(ps1[2]) THEN swap(ps1, 1, 2) ELSE ps1
        duplicate == make_duplicate(ps2[1], combined)
        c == insertSymbol(exportCombinedLineSymbol(ctx, DupKey(dup), duplicate,
                                                   num_parts = 3, env))
    IN  IF give_up THEN unhandledCombined(ctx)
        ELSE IF ~maybe_framing(ps2[2]) THEN unhandledCombined(ctx)
        ELSE IF num_parts = 3 /\ duplicate.line.border THEN unhandledCombined(ctx)
        ELSE [c EXCEPT !.sn = Put(@, MapKey(i), c.sn[DupKey(dup)])]

\* exportCombinedSymbol for the combined symbol at position i of the symbol
\* list.  bdup and dup are the addresses the allocator gives the border
\* clone and the duplicate.
exportCombinedSymbol(ctx, i, combined, bdup, dup, env) ==
    LET ks == nonNullParts(combined.parts, 1)
        num_parts == Len(ks)
        type(x) == PartSym(env.m, combined.parts[ks[x]]).type
        ps == [x \in 1..Min(num_parts, 3) |-> PartSym(env.m, combined.parts[ks[x]])]
    IN  CASE num_parts = 1 ->
               exportCombinedSingle(ctx, i, combined, combined.parts[ks[1]], dup, env)
          [] num_parts \in {2, 3} ->
               IF type(1) # "Line" /\ type(2) # "Line"
               THEN unhandledCombined(ctx)
               ELSE IF type(1) = "Area" \/ type(2) = "Area"
               THEN IF env.version < 9 \/ num_parts # 2
                    THEN unhandledCombined(ctx)
                    ELSE IF type(2) = "Area"
                         THEN exportCombinedArea(ctx, i, combined, ks[2], ks[1], bdup, dup, env)
                         ELSE exportCombinedArea(ctx, i, combined, ks[1], ks[2], bdup, dup, env)
               ELSE IF /\ type(1) = "Line" /\ type(2) = "Line"
                       /\ (num_parts = 2 \/ type(3) = "Line")
               THEN exportCombinedLines(ctx, i, combined, ps, num_parts, dup, env)
               ELSE unhandledCombined(ctx)
          [] OTHER -> unhandledCombined(ctx)

\* ----------------------------------------------------- calculateAreaOffset

\* Rectangles (QRectF) are [l, t, r, b] in millimetres; offsets (MapCoord)
\* are [x, y] in native units, 1/1000 mm.
OcdBound == 2000        \* ocd_bounds: (-2000, -2000) .. (2000, 2000)
OffsetUnit == 100       \* constexpr auto unit = 100
NativePerMm == 1000     \* MapCoord: native units per millimetre

Rect(l, t, r, b) == [l |-> l, t |-> t, r |-> r, b |-> b]
NullRect == Rect(0, 0, 0, 0)
Max(a, b) == IF a >= b THEN a ELSE b

\* QRectF::isValid, contains, intersects, width, height, center.
isValid(q) == q.r > q.l /\ q.b > q.t
contains(q, x) == x.l >= q.l /\ x.r <= q.r /\ x.t >= q.t /\ x.b <= q.b
intersects(q, x) ==
    /\ isValid(q) /\ isValid(x)
    /\ ~(q.l >= x.r \/ x.l >= q.r)
    /\ ~(q.t >= x.b \/ x.t >= q.b)
\* center() in native units, so that half millimetres stay exact.
centerNative(q) == [x |-> (q.l + q.r) * (NativePerMm \div 2),
                    y |-> (q.t + q.b) * (NativePerMm \div 2)]

\* qRound of a / b (b > 0): the nearest integer, halves away from zero.
qRoundDiv(a, b) == IF a >= 0 THEN (2 * a + b) \div (2 * b)
                   ELSE -((2 * (-a) + b) \div (2 * b))

\* Map::calculateExtent(): the bounding rectangle of the valid object
\* extents; a null rectangle for a map without such an object.
RECURSIVE calculateExtentFrom(_, _, _)
calculateExtentFrom(objects, o, acc) ==
    IF o > Len(objects) THEN acc
    ELSE IF ~isValid(objects[o].extent) THEN calculateExtentFrom(objects, o + 1, acc)
    ELSE IF ~isValid(acc) THEN calculateExtentFrom(objects, o + 1, objects[o].extent)
    ELSE calculateExtentFrom(objects, o + 1,
             Rect(Min(acc.l, objects[o].extent.l), Min(acc.t, objects[o].extent.t),
                  Max(acc.r, objects[o].extent.r), Max(acc.b, objects[o].extent.b)))

calculateExtent(m) == calculateExtentFrom(m.objects, 1, NullRect)

\* calculate_average_center applied to all objects: the mean of the centers
\* of the object extents.
RECURSIVE sumCenters(_, _)
sumCenters(objects, o) ==
    IF o > Len(objects) THEN [x |-> 0, y |-> 0]
    ELSE [x |-> centerNative(objects[o].extent).x + sumCenters(objects, o + 1).x,
          y |-> centerNative(objects[o].extent).y + sumCenters(objects, o + 1).y]

averageCenter(m) ==
    IF Len(m.objects) = 0 THEN [x |-> 0, y |-> 0]
    ELSE [x |-> qRoundDiv(sumCenters(m.objects, 1).x, Len(m.objects)),
          y |-> qRoundDiv(sumCenters(m.objects, 1).y, Len(m.objects))]

roundToUnit_zero(m, native) == 0

\* Georeferencing::toProjectedCoords and toMapCoordF for a georeferencing
\* without rotation and with the reference point at the origin: one
\* millimetre on the map is m.metres_per_mm metres.  The offset is rounded
\* to OffsetUnit metres in projected coordinates.
roundToUnit(m, native) ==
    qRoundDiv(native * m.metres_per_mm, OffsetUnit * NativePerMm)
        * ((OffsetUnit * NativePerMm) \div m.metres_per_mm)

\* MapCoord OcdFileExport::calculateAreaOffset(): the offset and the
\* warnings it adds.
calculateAreaOffset(m) ==
    LET ocd_bounds == Rect(-OcdBound, -OcdBound, OcdBound, OcdBound)
        objects_extent == calculateExtent(m)
        width(q) == q.r - q.l
        height(q) == q.b - q.t
        outside == isValid(objects_extent) /\ ~contains(ocd_bounds, objects_extent)
        fits == /\ width(objects_extent) < width(ocd_bounds)
                /\ height(objects_extent) < height(ocd_bounds)
        apart == ~intersects(objects_extent, ocd_bounds)
        raw == IF ~outside THEN [x |-> 0, y |-> 0]
               ELSE IF fits THEN centerNative(objects_extent)
               ELSE IF apart THEN averageCenter(m)
               ELSE [x |-> 0, y |-> 0]
        adjusted == "Coordinates are adjusted to fit into the OCAD 8 drawing area"
        remain == "Some coordinates remain outside of the OCAD 8 drawing area"
    IN  [offset |-> IF raw.x # 0 \/ raw.y # 0
                    THEN [x |-> roundToUnit(m, raw.x), y |-> roundToUnit(m, raw.y)]
                    ELSE raw,
         warnings |-> IF ~outside THEN <<>>
                      ELSE IF fits THEN <<adjusted>>
                      ELSE IF apart THEN <<adjusted, remain>>
                      ELSE <<remain>>]

\* ------------------------------------------------------------- the state

VARIABLES
    default_version,          \* OcdFileExport::default_version
    file_name,                \* the name of the output file
    codec_available,          \* the 8-bit encoding of the settings exists
    map,                      \* the map being exported
    pc,                       \* the position in doExport
    format,                   \* the Format of exportImplementation<Format>
    ocd_version,
    uses_registration_color,
    area_offset,
    symbol_numbers,
    text_format_mapping,
    warnings,
    file,                     \* the OcdFile being built
    stream,                   \* what has been written to the output stream
    sym_i, obj_i,             \* the loop variables of exportSymbols, exportObjects
    assigned,                 \* history: the numbers set by setupBaseSymbol
    phases,                   \* history: the steps taken, in order
    value, result             \* argument and result of a conversion call

vars == <<default_version, file_name, codec_available, map, pc, format,
          ocd_version, uses_registration_color, area_offset, symbol_numbers,
          text_format_mapping, warnings, file, stream, sym_i, obj_i,
          assigned, phases, value, result>>

inputs == <<default_version, file_name, codec_available, map>>
call == <<value, result>>

\* Map::getRegistrationColor(), as a color that is not in the color list.
RegistrationColor == -1

EmptyFile == [version |-> 0, info_size |-> 0, info_bytes |-> 0,
              color_info |-> <<>>, strings |-> <<>>,
              symbols |-> <<>>, objects |-> <<>>]

env == [m |-> map, version |-> ocd_version, uses_reg |-> uses_registration_color]

\* The state after construction, for given inputs.
Constructed ==
    /\ pc = "doExport"
    /\ format = "none"
    /\ ocd_version = 0
    /\ uses_registration_color = FALSE
    /\ area_offset = [x |-> 0, y |-> 0]
    /\ symbol_numbers = <<>>
    /\ text_format_mapping = <<>>
    /\ warnings = <<>>
    /\ file = EmptyFile
    /\ stream = <<>>
    /\ sym_i = 0
    /\ obj_i = 0
    /\ assigned = <<>>
    /\ phases = <<>>

\* ----------------------------------------------------------------- doExport

\* The version doExport switches on: default_version, overridden by the
\* name of a test file.
requestedVersion ==
    CASE file_name = "test-v8.ocd" -> 8
      [] file_name = "test-v9.ocd" -> 9
      [] file_name = "test-v10.ocd" -> 10
      [] file_name = "test-v11.ocd" -> 11
      [] file_name = "test-v12.ocd" -> 12
      [] OTHER -> default_version

\* The Format each supported version is exported with.
formatOf(version) ==
    CASE version = 8 -> "V8"
      [] version = 9 -> "V9"
      [] version = 10 -> "V9"
      [] version = 11 -> "V11"
      [] version = 12 -> "V12"
      [] OTHER -> "none"

\* The switch of doExport with the default label on exportImplementation.
dispatch_any(version) ==
    IF version = 0 THEN "exportImplementationLegacy" ELSE "exportImplementation"

\* switch (version) of doExport: where each version continues.
dispatch(version) ==
    CASE version = 0 -> "exportImplementationLegacy"
      [] version \in {8, 9, 10, 11, 12} -> "exportImplementation"
      [] OTHER -> "FileFormatException"

\* void OcdFileExport::doExport(): the switch over the version.
doExport ==
    /\ pc = "doExport"
    /\ pc' = dispatch(requestedVersion)
    /\ format' = formatOf(requestedVersion)
    /\ phases' = Append(phases, "doExport")
    /\ UNCHANGED <<inputs, call, ocd_version, uses_registration_color,
                   area_offset, symbol_numbers, text_format_mapping, warnings,
                   file, stream, sym_i, obj_i, assigned>>

\* exportImplementationLegacy(): OCAD8FileExport does the export and writes
\* the stream itself; its warnings are copied.
exportImplementationLegacy ==
    /\ pc = "exportImplementationLegacy"
    /\ \/ /\ pc' = "done"
          /\ stream' = Append(stream, [by |-> "OCAD8FileExport", data |-> EmptyFile])
       \/ /\ pc' = "FileFormatException"
          /\ stream' = stream
    /\ phases' = Append(phases, "legacy")
    /\ UNCHANGED <<inputs, call, format, ocd_version, uses_registration_color,
                   area_offset, symbol_numbers, text_format_mapping, warnings,
                   file, sym_i, obj_i, assigned>>

\* Format::Encoding is Custom8BitEncoding for the formats before version 11.
usesCustom8BitEncoding(f) == f \in {"V8", "V9"}

\* determineEncoding<Format::Encoding>(): the warnings it adds.
determineEncoding(f) ==
    IF usesCustom8BitEncoding(f) /\ ~codec_available
    THEN <<"Encoding is not available">>
    ELSE <<>>

\* exportImplementation<Format>(actual_version) up to the call of
\* exportSetup: the first warning, the encoding, the area offset, the
\* registration color, the generic header.
exportImplementation ==
    /\ pc = "exportImplementation"
    /\ pc' = "exportSetup"
    /\ ocd_version' = requestedVersion
    /\ warnings' = warnings \o <<"OcdFileExport: WORK IN PROGRESS, FILE INCOMPLETE">>
                            \o determineEncoding(format)
                            \o calculateAreaOffset(map).warnings
    /\ area_offset' = calculateAreaOffset(map).offset
    /\ uses_registration_color' = isColorUsedByASymbol(map)
    /\ file' = [file EXCEPT !.version = requestedVersion]
    /\ phases' = phases \o <<"calculateAreaOffset", "setupFileHeaderGeneric">>
    /\ UNCHANGED <<inputs, call, format, symbol_numbers, text_format_mapping,
                   stream, sym_i, obj_i, assigned>>

\* -------------------------------------------------------------- exportSetup

\* The colors in the order exportSetup writes them: the registration color
\* first when it is exported, then the map colors.  ocd_number++ numbers
\* them from 0.
exportedColors(m, uses_reg) ==
    (IF uses_reg THEN <<RegistrationColor>> ELSE <<>>)
        \o [c \in 1..m.num_colors |-> c - 1]

\* addColor for each exported color: color_info[ocd_number].number = ocd_number.
colorInfoV8(m, uses_reg) ==
    [x \in 1..Len(exportedColors(m, uses_reg)) |->
        [number |-> x - 1, color |-> exportedColors(m, uses_reg)[x]]]

\* addParameterString(9, stringForColor(ocd_number++, color)) for each
\* exported color.
colorStrings(m, uses_reg) ==
    [x \in 1..Len(exportedColors(m, uses_reg)) |->
        [tag |-> TagColor, n |-> x - 1, color |-> exportedColors(m, uses_reg)[x]]]

colorWarnings(uses_reg) ==
    (IF uses_reg THEN <<"Registration black is exported as a regular color.">> ELSE <<>>)
        \o <<"Spot color information was ignored.">>

\* The color limit without the entry of the registration color.
colorLimitV8_noreg(uses_reg) == MaxColorsV8

\* The color limit of exportSetup<FormatV8>.
colorLimitV8(uses_reg) == IF uses_reg THEN MaxColorsV8 - 1 ELSE MaxColorsV8

\* The notes of any length appended whole.
notesV8_whole(notes) == [size |-> notes + 1, kept |-> notes]

\* The notes of exportSetup<FormatV8>: info_size, and the bytes of the
\* notes that are kept (notes.truncate).
notesV8(notes) ==
    IF notes + 1 > MaxNotesV8
    THEN [size |-> MaxNotesV8, kept |-> Min(notes, TruncateNotesV8)]
    ELSE [size |-> notes + 1, kept |-> notes]

\* exportSetup(OcdFile<Ocd::FormatV8>&): the notes, then the color table, or
\* the exception for too many colors.
exportSetupV8 ==
    /\ pc = "exportSetup"
    /\ format = "V8"
    /\ LET notes == map.notes_len
           size == notesV8(notes).size
           kept == notesV8(notes).kept
           with_notes == IF notes = 0 THEN file
                         ELSE [file EXCEPT !.info_size = size, !.info_bytes = kept + 1]
       IN  IF map.num_colors > colorLimitV8(uses_registration_color)
           THEN /\ pc' = "FileFormatException"
                /\ file' = with_notes
                /\ warnings' = warnings
           ELSE /\ pc' = "exportSymbols"
                /\ file' = [with_notes EXCEPT
                               !.color_info = colorInfoV8(map, uses_registration_color)]
                /\ warnings' = warnings \o colorWarnings(uses_registration_color)
    /\ phases' = Append(phases, "exportSetup")
    /\ UNCHANGED <<inputs, call, format, ocd_version, uses_registration_color,
                   area_offset, symbol_numbers, text_format_mapping, stream,
                   sym_i, obj_i, assigned>>

\* The tag of the notes of versions 9 and 10, for every version.
notesTag_v9(version) == TagNotesV9

\* ocd_version >= 11 ? 1061 : 11.
notesTag(version) == IF version >= 11 THEN TagNotesV11 ELSE TagNotesV9

\* exportSetup(quint16 ocd_version), for the formats from version 9 on.
exportSetup ==
    /\ pc = "exportSetup"
    /\ format # "V8"
    /\ pc' = "exportSymbols"
    /\ file' = [file EXCEPT !.strings =
                   @ \o <<[tag |-> TagScalePar, n |-> 0, color |-> RegistrationColor]>>
                     \o (IF file.version >= 9
                         THEN <<[tag |-> notesTag(file.version),
                                 n |-> 0, color |-> RegistrationColor]>>
                         ELSE <<>>)
                     \o colorStrings(map, uses_registration_color)]
    /\ warnings' = warnings \o colorWarnings(uses_registration_color)
    /\ phases' = Append(phases, "exportSetup")
    /\ UNCHANGED <<inputs, call, format, ocd_version, uses_registration_color,
                   area_offset, symbol_numbers, text_format_mapping, stream,
                   sym_i, obj_i, assigned>>

\* ------------------------------------------------------------ exportSymbols

context == [sn |-> symbol_numbers, syms |-> file.symbols,
            tfm |-> text_format_mapping, warn |-> warnings, asg |-> assigned]

\* The loop of exportSymbols without the test for symbols that a combined
\* symbol has exported.
exportSymbolAt_noskip(ctx, i, bdup, dup, e) ==
    LET symbol == e.m.symbols[i]
    IN  CASE symbol.type = "Point" ->
                insertSymbol(exportPointSymbol(ctx, MapKey(i), symbol, e))
          [] symbol.type = "Area" ->
                insertSymbol(exportAreaSymbol(ctx, MapKey(i), symbol, e))
          [] symbol.type = "Line" ->
                insertSymbol(exportLineSymbol(ctx, MapKey(i), symbol, e))
          [] symbol.type = "Text" ->
                exportTextSymbol(ctx, i, symbol, e)
          [] symbol.type = "Combined" ->
                exportCombinedSymbol(ctx, i, symbol, bdup, dup, e)

\* One iteration of the loop of exportSymbols, for the symbol at position i.
exportSymbolAt(ctx, i, bdup, dup, e) ==
    LET symbol == e.m.symbols[i]
    IN  IF MapKey(i) \in DOMAIN ctx.sn THEN ctx    \* Exported by combined symbol
        ELSE CASE symbol.type = "Point" ->
                    insertSymbol(exportPointSymbol(ctx, MapKey(i), symbol, e))
               [] symbol.type = "Area" ->
                    insertSymbol(exportAreaSymbol(ctx, MapKey(i), symbol, e))
               [] symbol.type = "Line" ->
                    insertSymbol(exportLineSymbol(ctx, MapKey(i), symbol, e))
               [] symbol.type = "Text" ->
                    exportTextSymbol(ctx, i, symbol, e)
               [] symbol.type = "Combined" ->
                    exportCombinedSymbol(ctx, i, symbol, bdup, dup, e)

exportSymbols ==
    /\ pc = "exportSymbols"
    /\ sym_i < Len(map.symbols)
    /\ \E bdup \in 1..MaxDupAddr, dup \in 1..MaxDupAddr :
          /\ bdup # dup
          /\ LET c == exportSymbolAt(context, sym_i + 1, bdup, dup, env)
             IN  /\ symbol_numbers' = c.sn
                 /\ file' = [file EXCEPT !.symbols = c.syms]
                 /\ text_format_mapping' = c.tfm
                 /\ warnings' = c.warn
                 /\ assigned' = c.asg
    /\ sym_i' = sym_i + 1
    /\ phases' = Append(phases, "exportSymbol")
    /\ UNCHANGED <<inputs, call, pc, format, ocd_version, uses_registration_color,
                   area_offset, stream, obj_i>>

\* exportSymbols returning from any iteration of its loop.
exportSymbolsReturn_early ==
    /\ pc = "exportSymbols"
    /\ sym_i <= Len(map.symbols)
    /\ pc' = "exportObjects"
    /\ UNCHANGED <<inputs, call, format, ocd_version, uses_registration_color,
                   area_offset, symbol_numbers, text_format_mapping, warnings,
                   file, stream, sym_i, obj_i, assigned, phases>>

\* exportSymbols returns when the loop has visited every symbol.
exportSymbolsReturn ==
    /\ pc = "exportSymbols"
    /\ sym_i = Len(map.symbols)
    /\ pc' = "exportObjects"
    /\ UNCHANGED <<inputs, call, format, ocd_version, uses_registration_color,
                   area_offset, symbol_numbers, text_format_mapping, warnings,
                   file, stream, sym_i, obj_i, assigned, phases>>

\* ------------------------------------------------------------ exportObjects

\* Object::move without effect.
moved_same(object, offset) == object

\* Object::move(-area_offset) on the duplicate: the extent moves with it.
moved(object, offset) ==
    [object EXCEPT !.extent =
        Rect(@.l - offset.x \div NativePerMm, @.t - offset.y \div NativePerMm,
             @.r - offset.x \div NativePerMm, @.b - offset.y \div NativePerMm)]

\* symbol_numbers[symbol]: the entry, created with the value 0 when missing.
numberOf(sn, key) == IF key \in DOMAIN sn THEN sn[key] ELSE 0
touched(sn, key) == IF key \in DOMAIN sn THEN sn ELSE Put(sn, key, 0)

\* find_if matching the symbol alone.
symbolMappings_bySymbol(tfm, object) ==
    { x \in 1..Len(tfm) : tfm[x].symbol = object.symbol }

\* The entries find_if looks at in exportTextObject.
symbolMappings(tfm, object) ==
    { x \in 1..Len(tfm) : /\ tfm[x].symbol = object.symbol
                          /\ tfm[x].alignment = object.alignment }

\* exportObjectCommon: the part of the record and of the index entry the
\* model keeps.  index is the position of the object in the map, duplicate
\* tells whether a moved duplicate was encoded.
ObjectRecord(type, symbol, object, index, duplicate) ==
    [type |-> type, symbol |-> symbol, object |-> index, duplicate |-> duplicate,
     bottom_left_bound |-> convertPoint(object.extent.l * NativePerMm,
                                        object.extent.b * NativePerMm),
     top_right_bound |-> convertPoint(object.extent.r * NativePerMm,
                                      object.extent.t * NativePerMm)]

\* exportPointObject, exportPathObject: the symbol field is
\* symbol_numbers[object->getSymbol()].
exportPointObject(sn, object, index, duplicate) ==
    ObjectRecord(1, numberOf(sn, MapKey(object.symbol)), object, index, duplicate)

exportPathObject(sn, m, object, index, duplicate) ==
    ObjectRecord(IF containsArea(m, m.symbols[object.symbol]) THEN 3 ELSE 2,
                 numberOf(sn, MapKey(object.symbol)), object, index, duplicate)

\* exportTextObject, given the entry find_if returned.
exportTextObject(tfm, x, object, index, duplicate) ==
    ObjectRecord(IF object.single_anchor THEN 4 ELSE 5,
                 tfm[x].ocd_number, object, index, duplicate)

\* One iteration of the loops of exportObjects.
exportObjects ==
    /\ pc = "exportObjects"
    /\ obj_i < Len(map.objects)
    /\ LET index == obj_i + 1
           duplicate == area_offset.x # 0 \/ area_offset.y # 0
           object == IF duplicate THEN moved(map.objects[index], area_offset)
                     ELSE map.objects[index]
           found == symbolMappings(text_format_mapping, object)
           first == CHOOSE x \in found : \A y \in found : x <= y
       IN  CASE object.type = "Point" ->
                  /\ file' = [file EXCEPT !.objects = Append(@,
                                  exportPointObject(symbol_numbers, object, index, duplicate))]
                  /\ symbol_numbers' = touched(symbol_numbers, MapKey(object.symbol))
                  /\ pc' = pc
             [] object.type = "Path" ->
                  /\ file' = [file EXCEPT !.objects = Append(@,
                                  exportPathObject(symbol_numbers, map, object, index, duplicate))]
                  /\ symbol_numbers' = touched(symbol_numbers, MapKey(object.symbol))
                  /\ pc' = pc
             [] object.type = "Text" /\ found # {} ->
                  /\ file' = [file EXCEPT !.objects = Append(@,
                                  exportTextObject(text_format_mapping, first, object,
                                                   index, duplicate))]
                  /\ symbol_numbers' = symbol_numbers
                  /\ pc' = pc
             [] object.type = "Text" /\ found = {} ->
                  \* find_if returned end(): the assertion fails, or the
                  \* iterator is dereferenced and any number is read.
                  /\ symbol_numbers' = symbol_numbers
                  /\ \/ pc' = "aborted" /\ file' = file
                     \/ /\ pc' = pc
                        /\ \E x \in 1..Len(text_format_mapping) :
                              file' = [file EXCEPT !.objects = Append(@,
                                  exportTextObject(text_format_mapping, x, object,
                                                   index, duplicate))]
    /\ obj_i' = obj_i + 1
    /\ phases' = Append(phases, "exportObject")
    /\ UNCHANGED <<inputs, call, format, ocd_version, uses_registration_color,
                   area_offset, text_format_mapping, warnings, stream, sym_i,
                   assigned>>

exportObjectsReturn ==
    /\ pc = "exportObjects"
    /\ obj_i = Len(map.objects)
    /\ pc' = "exportExtras"
    /\ UNCHANGED <<inputs, call, format, ocd_version, uses_registration_color,
                   area_offset, symbol_numbers, text_format_mapping, warnings,
                   file, stream, sym_i, obj_i, assigned, phases>>

\* exportExtras(file): nothing is written.
exportExtras ==
    /\ pc = "exportExtras"
    /\ pc' = "write"
    /\ phases' = Append(phases, "exportExtras")
    /\ UNCHANGED <<inputs, call, format, ocd_version, uses_registration_color,
                   area_offset, symbol_numbers, text_format_mapping, warnings,
                   file, stream, sym_i, obj_i, assigned>>

\* stream->write(file.constByteArray()).
streamWrite ==
    /\ pc = "write"
    /\ pc' = "done"
    /\ stream' = Append(stream, [by |-> "OcdFileExport", data |-> file])
    /\ phases' = Append(phases, "write")
    /\ UNCHANGED <<inputs, call, format, ocd_version, uses_registration_color,
                   area_offset, symbol_numbers, text_format_mapping, warnings,
                   file, sym_i, obj_i, assigned>>

\* ------------------------------------------------------------- the inputs

Obj(type, symbol, alignment, extent) ==
    [type |-> type, symbol |-> symbol, alignment |-> alignment,
     single_anchor |-> TRUE, extent |-> extent]

Map(num_colors, symbols, objects, notes_len) ==
    [num_colors |-> num_colors, symbols |-> symbols, objects |-> objects,
     notes_len |-> notes_len, metres_per_mm |-> 10]

Scenario(version, name, codec, m) ==
    [default_version |-> version, file_name |-> name, codec_available |-> codec,
     map |-> m]

PointSym(number, reg, colors) == Sym("Point", number, reg, colors, NoLine, <<>>)
LineSym(number, line) == Sym("Line", number, FALSE, {}, line, <<>>)
AreaSym(number) == Sym("Area", number, FALSE, {}, NoLine, <<>>)
TextSym(number) == Sym("Text", number, FALSE, {}, NoLine, <<>>)
CombinedSym(number, parts) == Sym("Combined", number, FALSE, {}, NoLine, parts)

\* Number components: 0.0, 0.1, 1.0 and 0 with the second component unset.
NumberChoices == {<<0, 0>>, <<0, 1>>, <<1, 0>>, <<0, -1>>}

\* Object extents: inside the drawing area, outside but small enough to
\* fit, too wide and apart from the area, too wide and overlapping it, and
\* the empty extent.
SmallExtent == Rect(-10, -10, 10, 10)
ExtentChoices == {SmallExtent, Rect(2500, 2500, 2600, 2700),
                  Rect(2500, -5000, 2600, 5000), Rect(-3000, -10, 3000, 10),
                  NullRect}

\* (A) The versions, the color counts around the version 8 limit, the
\* notes and the extents, for maps of at most one point symbol and object.
DefaultVersions == {0, 7, 8, 9, 10, 11, 12, 13}
TestFileNames == {"test-v8.ocd", "test-v9.ocd", "test-v10.ocd", "test-v11.ocd",
                  "test-v12.ocd"}
ColorCounts == {0, 1, 2, MaxColorsV8 - 1, MaxColorsV8, MaxColorsV8 + 1}
NotesChoices == {0, 3}
LongNotes == {MaxNotesV8 - 1, MaxNotesV8, MaxNotesV8 + 7232}

PipelineMaps ==
    { Map(n, <<>>, <<>>, notes) : n \in ColorCounts, notes \in NotesChoices }
    \cup
    { Map(n, <<PointSym(<<1, 0>>, reg, {})>>, objects, notes) :
        n \in ColorCounts, notes \in NotesChoices, reg \in BOOLEAN,
        objects \in {<<>>} \cup { <<Obj("Point", 1, 0, e)>> : e \in ExtentChoices } }

PipelineScenarios ==
    { Scenario(v, "map.ocd", codec, m) :
        v \in DefaultVersions, codec \in BOOLEAN, m \in PipelineMaps }
    \cup
    { Scenario(0, name, TRUE, m) : name \in TestFileNames, m \in PipelineMaps }

\* (B) Symbol lists with colliding, zero and unset numbers.
PlainSymbols ==
    { PointSym(n, FALSE, {}) : n \in NumberChoices }
    \cup { LineSym(n, PlainLine) : n \in NumberChoices }
    \cup { AreaSym(n) : n \in NumberChoices }
    \cup { TextSym(n) : n \in NumberChoices }

NumberingScenarios ==
    { Scenario(v, "map.ocd", TRUE, Map(1, symbols, <<>>, 0)) :
        v \in {8, 9}, symbols \in SeqsUpTo(PlainSymbols, MaxSymbols) }

\* The text objects that can use the text symbols of a list, of every
\* alignment.
TextObjectsFor(symbols) ==
    { Obj("Text", i, a, SmallExtent) :
        i \in { j \in DOMAIN symbols : symbols[j].type = "Text" },
        a \in 0..MaxAlignment }

\* (C) Text symbols and the text objects that use them, with other symbols
\* after them.
TextMapSymbols == { TextSym(<<0, 0>>), PointSym(<<0, 0>>, FALSE, {}) }

TextScenarios ==
    UNION { { Scenario(9, "map.ocd", TRUE, Map(1, symbols, objects, 0)) :
                objects \in SeqsUpTo(TextObjectsFor(symbols), MaxObjects) } :
            symbols \in SeqsUpTo(TextMapSymbols, MaxSymbols) }

\* (D) Combined symbols: one combined symbol of private parts, and lists of
\* combined symbols of private and public parts with the lines and areas
\* they share; at most one path object.
PrivateLine(line) == PrivatePart(LineSym(<<5, 0>>, line))
PrivateArea == PrivatePart(AreaSym(<<5, 0>>))
PrivateCombined == PrivatePart(CombinedSym(<<5, 0>>, <<>>))

PartLists ==
    { <<>>, <<PrivateArea>>, <<PrivateLine(PlainLine)>>, <<PrivateCombined>>,
      <<PrivateArea, PrivateLine(PlainLine)>>, <<PrivateLine(PlainLine), PrivateArea>>,
      <<NullPart, PrivateArea, PrivateLine(PlainLine)>>,
      <<PrivateArea, PrivateArea>>,
      <<PrivateLine(PlainLine), PrivateLine(PlainLine)>>,
      <<PrivateLine(DashedLine), PrivateLine(DashedLine)>>,
      <<PrivateLine(DoubleLine), PrivateLine(PlainLine), PrivateLine(PlainLine)>>,
      <<PrivateLine(PlainLine), PrivateLine(PlainLine), PrivateLine(DoubleLine)>>,
      <<PrivateLine(PlainLine), PrivateLine(PlainLine), PrivateLine(PlainLine)>>,
      <<PrivateArea, PrivateLine(PlainLine), PrivateLine(PlainLine)>>,
      <<PrivateArea, PrivateLine(PlainLine), PrivateCombined>>,
      <<PrivateLine(PlainLine), PrivateLine(PlainLine), PrivateLine(PlainLine),
        PrivateLine(PlainLine)>> }

SharingSymbols ==
    { CombinedSym(<<0, 0>>, <<PrivateArea, PublicPart(j)>>) : j \in 1..MaxSymbols }
    \cup { CombinedSym(<<0, 0>>, <<PublicPart(j)>>) : j \in 1..MaxSymbols }
    \cup { CombinedSym(<<0, 0>>, <<PrivateArea, PrivateLine(PlainLine)>>),
           LineSym(<<0, 0>>, PlainLine), LineSym(<<0, 1>>, PlainLine) }

\* The public parts of a combined symbol are lines and areas of the list.
WellFormed(symbols) ==
    \A i \in DOMAIN symbols : \A k \in DOMAIN symbols[i].parts :
        LET part == symbols[i].parts[k]
        IN  (~part.null /\ ~part.priv) =>
                /\ part.idx \in DOMAIN symbols
                /\ symbols[part.idx].type \in {"Line", "Area"}

PathObjects(symbols) ==
    {<<>>} \cup { <<Obj("Path", i, 0, SmallExtent)>> : i \in DOMAIN symbols }

\* Two combined symbols with the same public border line, which is before,
\* between or after them in the symbol list.
SharedBorderLists ==
    { <<CombinedSym(<<0, 0>>, <<PrivateArea, PublicPart(3)>>),
        CombinedSym(<<0, 0>>, <<PublicPart(3), PrivateArea>>),
        LineSym(<<0, 0>>, PlainLine)>>,
      <<CombinedSym(<<0, 0>>, <<PrivateArea, PublicPart(2)>>),
        LineSym(<<0, 0>>, PlainLine),
        CombinedSym(<<0, 0>>, <<PrivateArea, PublicPart(2)>>)>>,
      <<LineSym(<<0, 0>>, PlainLine),
        CombinedSym(<<0, 0>>, <<PrivateArea, PublicPart(1)>>),
        CombinedSym(<<0, 0>>, <<PrivateArea, PublicPart(1)>>)>> }

CombinedLists ==
    { <<CombinedSym(<<0, 0>>, parts)>> : parts \in PartLists }
    \cup { x \in SeqsUpTo(SharingSymbols, MaxSymbols) : WellFormed(x) }
    \cup SharedBorderLists

CombinedScenarios ==
    UNION { { Scenario(v, "map.ocd", TRUE, Map(1, symbols, objects, 0)) :
                v \in {8, 9}, objects \in PathObjects(symbols) } :
            symbols \in CombinedLists }

\* (E) Point symbols with few of many colors, with and without the
\* registration color, alone or before a symbol that uses the registration
\* color.
ColorSets == { cs \in SUBSET (0..(MaskColors - 1)) : Cardinality(cs) <= MaxSymbolColors }

MaskScenarios ==
    { Scenario(v, "map.ocd", TRUE, Map(MaskColors, <<PointSym(<<1, 0>>, reg, cs)>>, <<>>, 0)) :
        v \in {8, 9}, reg \in BOOLEAN, cs \in ColorSets }
    \cup
    { Scenario(v, "map.ocd", TRUE,
               Map(MaskColors, <<PointSym(<<1, 0>>, FALSE, cs),
                                 PointSym(<<2, 0>>, TRUE, {})>>, <<>>, 0)) :
        v \in {8, 9}, cs \in ColorSets }

\* (F) Notes at and beyond the limit of version 8, with few and with too
\* many colors.
NotesScenarios ==
    { Scenario(v, "map.ocd", TRUE, Map(n, symbols, <<>>, notes)) :
        v \in {8, 9}, n \in {0, MaxColorsV8 + 1}, notes \in LongNotes,
        symbols \in {<<>>, <<PointSym(<<1, 0>>, FALSE, {})>>} }

\* (G) Two objects at either side of, above, or inside the drawing area of
\* version 8.
SideExtents == {SmallExtent, Rect(2500, -10, 2600, 10), Rect(-2700, -10, -2600, 10),
                Rect(-10, 2100, 10, 2200), Rect(-7000, -10, -6900, 10)}

OffsetScenarios ==
    { Scenario(8, "map.ocd", TRUE,
               Map(1, <<PointSym(<<1, 0>>, FALSE, {})>>,
                   <<Obj("Point", 1, 0, a), Obj("Point", 1, 0, b)>>, 0)) :
        a \in SideExtents, b \in SideExtents }

Scenarios == PipelineScenarios \cup NumberingScenarios \cup TextScenarios
             \cup CombinedScenarios \cup MaskScenarios
             \cup NotesScenarios \cup OffsetScenarios

\* ------------------------------------------------------- the specification

Init ==
    /\ \E sc \in Scenarios :
          /\ default_version = sc.default_version
          /\ file_name = sc.file_name
          /\ codec_available = sc.codec_available
          /\ map = sc.map
    /\ Constructed
    /\ value = 0
    /\ result = 0

Next ==
    \/ doExport
    \/ exportImplementationLegacy
    \/ exportImplementation
    \/ exportSetupV8
    \/ exportSetup
    \/ exportSymbols
    \/ exportSymbolsReturn
    \/ exportObjects
    \/ exportObjectsReturn
    \/ exportExtras
    \/ streamWrite

Spec == Init /\ [][Next]_vars

\* convertPointMember applied to the coordinates -MaxCoord..MaxCoord and to
\* the coordinates around the ends of the 24 bit range.
PointValues ==
    (-MaxCoord..MaxCoord)
    \cup { Int23 * 10 - 10 + d : d \in 0..10 }
    \cup { -(Int23 * 10) - 10 + d : d \in 0..10 }

InitPoint ==
    /\ default_version = 0
    /\ file_name = "map.ocd"
    /\ codec_available = TRUE
    /\ map = Map(0, <<>>, <<>>, 0)
    /\ pc = "convertPointMember"
    /\ format = "none"
    /\ ocd_version = 0
    /\ uses_registration_color = FALSE
    /\ area_offset = [x |-> 0, y |-> 0]
    /\ symbol_numbers = <<>>
    /\ text_format_mapping = <<>>
    /\ warnings = <<>>
    /\ file = EmptyFile
    /\ stream = <<>>
    /\ sym_i = 0
    /\ obj_i = 0
    /\ assigned = <<>>
    /\ phases = <<>>
    /\ value \in PointValues
    /\ result = 0

\* result = convertPointMember(value).
callConvertPointMember ==
    /\ pc = "convertPointMember"
    /\ pc' = "returned"
    /\ result' = convertPointMember(value)
    /\ UNCHANGED <<inputs, value, format, ocd_version, uses_registration_color,
                   area_offset, symbol_numbers, text_format_mapping, warnings,
                   file, stream, sym_i, obj_i, assigned, phases>>

NextPoint == callConvertPointMember

SpecPoint == InitPoint /\ [][NextPoint]_vars

\* ---------------------------------------------------------------- claims

\* The steps after which the export is over.
Finished == pc \in {"done", "FileFormatException", "aborted"}
AfterSetup == pc \in {"exportSymbols", "exportObjects", "exportExtras", "write", "done"}
AfterSymbols == pc \in {"exportObjects", "exportExtras", "write", "done"}
Supported == requestedVersion \in {8, 9, 10, 11, 12}

\* C1: for every value whose scaled value floor((value+5)/10) fits in 24
\* bits, convertPointMember(value) is that scaled value shifted left by 8
\* bits, as a 32 bit two's complement number: halves round up for both signs.
FloorScaled(v) == (v + 5) \div 10
FitsIn24Bits(q) == q >= -Int23 /\ q < Int23
C1_PointMemberRoundsHalfUp ==
    (pc = "returned" /\ FitsIn24Bits(FloorScaled(value)))
        => result = FloorScaled(value) * PointShift

\* A negative half was converted: -15 gives -1 unit, which truncation of
\* (value+5)/10 would not.
C1_Witness ==
    /\ pc = "returned"
    /\ value = -15
    /\ result = -PointShift

\* C2: after exportSymbols no two symbol records of the file carry the same
\* symbol number, the records cloned for text alignments and for borders
\* included.
C2_RecordNumbersDistinct ==
    AfterSymbols =>
        \A a, b \in DOMAIN file.symbols :
            a # b => file.symbols[a].number # file.symbols[b].number

\* C3: the numbers assigned by the calls of setupBaseSymbol are pairwise
\* distinct and each is at least 1, whatever numbers the symbols request.
C3_AssignedNumbersDistinct ==
    /\ \A a \in DOMAIN assigned : assigned[a].number >= 1
    /\ \A a, b \in DOMAIN assigned :
          a # b => assigned[a].number # assigned[b].number

\* C4: the symbol field of every object record is the number of a symbol
\* record exported before, and never the 0 the table lookup creates.
C4_ObjectSymbolsExported ==
    \A o \in DOMAIN file.objects :
        /\ file.objects[o].symbol # 0
        /\ \E x \in DOMAIN file.symbols :
              file.symbols[x].number = file.objects[o].symbol

\* C5: an export of version 8 to 12 runs its phases in the fixed order, each
\* phase outside the two loops once; no object record exists before the loop
\* over the symbols has ended; nothing is written to the stream before the
\* last step, every step before it is at one of the phases with the loops
\* inside their ranges unless a fatal condition ended the export, and the
\* last step writes the file to the stream once.
PhaseRank(phase) ==
    CASE phase = "doExport" -> 0
      [] phase = "calculateAreaOffset" -> 1
      [] phase = "setupFileHeaderGeneric" -> 2
      [] phase = "exportSetup" -> 3
      [] phase = "exportSymbol" -> 4
      [] phase = "exportObject" -> 5
      [] phase = "exportExtras" -> 6
      [] phase = "write" -> 7
      [] OTHER -> 8
OncePhases == {"doExport", "calculateAreaOffset", "setupFileHeaderGeneric",
               "exportSetup", "exportExtras", "write"}
C5_PhaseOrder ==
    Supported =>
        /\ \A a, b \in DOMAIN phases :
              a < b => /\ PhaseRank(phases[a]) <= PhaseRank(phases[b])
                       /\ (phases[a] \in OncePhases => phases[a] # phases[b])
        /\ (file.objects # <<>>) =>
              /\ sym_i = Len(map.symbols)
              /\ Cardinality({a \in DOMAIN phases : phases[a] = "exportSymbol"})
                    = Len(map.symbols)
        /\ (pc # "done") => stream = <<>>
        /\ (~Finished) =>
              /\ pc \in {"doExport", "exportImplementation", "exportSetup",
                         "exportSymbols", "exportObjects", "exportExtras", "write"}
              /\ sym_i <= Len(map.symbols)
              /\ obj_i <= Len(map.objects)
        /\ (pc = "done") =>
              /\ stream = <<[by |-> "OcdFileExport", data |-> file]>>
              /\ phases[Len(phases)] = "write"
              /\ OncePhases \subseteq Range(phases)
              /\ Len(file.objects) = Len(map.objects)

\* An export with a symbol record, an object record and more warnings than
\* the two every export adds has written the stream.
C5_Witness ==
    /\ Supported
    /\ pc = "done"
    /\ Len(file.symbols) >= 1
    /\ Len(file.objects) >= 1
    /\ Len(warnings) >= 4
    /\ Len(stream) = 1

\* C6: when the requested version is none of 0, 8, 9, 10, 11, 12, doExport
\* ends with the file format exception as its only step and nothing is
\* written to the stream.
C6_UnsupportedVersion ==
    (requestedVersion \notin {0, 8, 9, 10, 11, 12} /\ pc # "doExport")
        => /\ pc = "FileFormatException"
           /\ stream = <<>>
           /\ phases = <<"doExport">>
           /\ file = EmptyFile

C6_Witness ==
    /\ requestedVersion = 13
    /\ pc = "FileFormatException"
    /\ stream = <<>>

\* C7: once exportSetup has run, a version 8 export has failed with the file
\* format exception exactly when the map has more than 256 colors, or more
\* than 255 with the registration color exported; a failed export has
\* written nothing; otherwise every exported color has its own entry with a
\* number below 256.  The later versions never fail.
C7_ColorLimit ==
    /\ (format = "V8" /\ (AfterSetup \/ Finished)) =>
          /\ (pc = "FileFormatException")
                <=> (map.num_colors > (IF uses_registration_color THEN 255 ELSE 256))
          /\ (pc = "FileFormatException") => stream = <<>>
          /\ (pc # "FileFormatException") =>
                /\ Len(file.color_info)
                      = map.num_colors + (IF uses_registration_color THEN 1 ELSE 0)
                /\ \A x \in DOMAIN file.color_info : file.color_info[x].number < 256
                /\ Cardinality({ file.color_info[x].number : x \in DOMAIN file.color_info })
                      = Len(file.color_info)
                /\ Cardinality({ file.color_info[x].color : x \in DOMAIN file.color_info })
                      = Len(file.color_info)
                /\ \A c \in 0..(map.num_colors - 1) :
                      \E x \in DOMAIN file.color_info : file.color_info[x].color = c
    /\ (format \in {"V9", "V11", "V12"}) => pc # "FileFormatException"

\* Version 8 with the registration color: 256 colors fail, 255 colors fill
\* the table.
C7_Witness ==
    /\ format = "V8"
    /\ uses_registration_color
    /\ \/ pc = "FileFormatException" /\ map.num_colors = 256
       \/ pc = "done" /\ map.num_colors = 255 /\ Len(file.color_info) = 256

\* C8: the number written for the color at position c of the map's color
\* list, in the color table of version 8 and in the tag 9 strings of the
\* later versions, is convertColor of the color, which is c + 1 when the
\* registration color is exported and c otherwise; the registration color
\* is written first, with the number 0; convertColor of a color that is not
\* in the list is 0.
IsColorString(entry) == entry.tag = TagColor
ColorEntries ==
    IF format = "V8" THEN file.color_info
    ELSE LET strings == SelectSeq(file.strings, IsColorString)
         IN  [x \in DOMAIN strings |->
                 [number |-> strings[x].n, color |-> strings[x].color]]
C8_ColorNumbers ==
    (AfterSetup /\ Supported) =>
        LET entries == ColorEntries
            written == Range(entries)
        IN  /\ \A c \in 0..(map.num_colors - 1) :
                  /\ convertColor(map, uses_registration_color, c)
                        = (IF uses_registration_color THEN c + 1 ELSE c)
                  /\ [color |-> c,
                      number |-> convertColor(map, uses_registration_color, c)]
                        \in written
            /\ uses_registration_color =>
                  entries[1] = [color |-> RegistrationColor, number |-> 0]
            /\ \A entry \in written :
                  entry.color \in {RegistrationColor} \cup 0..(map.num_colors - 1)
            /\ Len(entries) = map.num_colors + (IF uses_registration_color THEN 1 ELSE 0)
            /\ convertColor(map, uses_registration_color, map.num_colors) = 0
            /\ convertColor(map, uses_registration_color, RegistrationColor) = 0

\* The registration color and two map colors were written, for version 8
\* or a later version.
C8_Witness ==
    /\ AfterSetup
    /\ uses_registration_color
    /\ map.num_colors = 2
    /\ Len(ColorEntries) = 3
    /\ ColorEntries[3].color = 1
    /\ ColorEntries[3].number = 2

\* C9: in the used-color mask of every symbol record, with the bits counted
\* across the mask words, the bits set are the bits convertColor(color) of
\* the map colors the symbol contains and bit 0 for the registration color
\* when the symbol contains it, and no other bit.
ExpectedMask(sym) ==
    { convertColor(map, uses_registration_color, c) : c \in sym.colors }
        \cup (IF sym.reg THEN {0} ELSE {})
C9_UsedColorMask ==
    \A x \in DOMAIN file.symbols :
        file.symbols[x].colors = ExpectedMask(file.symbols[x].src)

\* C10: for the versions 9 to 12, exportSetup adds one string of tag 1039,
\* then one string of the notes with tag 11 for the versions 9 and 10 and
\* tag 1061 for the versions 11 and 12, then one string of tag 9 for each
\* exported color in the order of the colors; version 10 has the format of
\* version 9 and the header version 10.
C10_SetupStrings ==
    (requestedVersion \in {9, 10, 11, 12} /\ AfterSetup) =>
        /\ Len(file.strings)
              = 2 + map.num_colors + (IF uses_registration_color THEN 1 ELSE 0)
        /\ file.strings[1].tag = 1039
        /\ file.strings[2].tag = (IF requestedVersion \in {9, 10} THEN 11 ELSE 1061)
        /\ \A x \in 3..Len(file.strings) :
              /\ file.strings[x].tag = 9
              /\ file.strings[x].n = x - 3
              /\ file.strings[x].color
                    = (IF uses_registration_color
                       THEN (IF x = 3 THEN RegistrationColor ELSE x - 4)
                       ELSE x - 3)
        /\ file.version = requestedVersion
        /\ (requestedVersion = 10) => format = "V9"

\* Version 11 with the registration color and two colors.
C10_Witness ==
    /\ requestedVersion = 11
    /\ pc = "done"
    /\ uses_registration_color
    /\ Len(file.strings) = 5
    /\ file.strings[2].tag = 1061
    /\ file.strings[5].color = 1

\* C11: after exportSymbols every text symbol has one record for each
\* horizontal alignment its text objects use, or one record with the
\* alignment 0 when no object uses it; and every encoded text object found
\* its (symbol, alignment) entry: its symbol field is the number of the
\* record written for that symbol and alignment.
UsedAlignments(i) ==
    { map.objects[o].alignment :
        o \in { u \in DOMAIN map.objects : map.objects[u].symbol = i } }
TextRecords(i) ==
    { x \in DOMAIN file.symbols :
        file.symbols[x].type = "Text" /\ file.symbols[x].key = MapKey(i) }
C11_TextAlignments ==
    /\ AfterSymbols =>
          \A i \in DOMAIN map.symbols :
              map.symbols[i].type = "Text" =>
                  /\ Cardinality(TextRecords(i))
                        = (IF UsedAlignments(i) = {} THEN 1
                           ELSE Cardinality(UsedAlignments(i)))
                  /\ { file.symbols[x].alignment : x \in TextRecords(i) }
                        = (IF UsedAlignments(i) = {} THEN {0} ELSE UsedAlignments(i))
    /\ pc # "aborted"
    /\ \A r \in DOMAIN file.objects :
          LET object == map.objects[file.objects[r].object]
          IN  object.type = "Text" =>
                  \E x \in TextRecords(object.symbol) :
                      /\ file.symbols[x].alignment = object.alignment
                      /\ file.symbols[x].number = file.objects[r].symbol
                      /\ \E e \in DOMAIN text_format_mapping :
                            text_format_mapping[e]
                                = [symbol |-> object.symbol,
                                   alignment |-> object.alignment,
                                   ocd_number |-> file.symbols[x].number]

\* Two text objects of one symbol with different alignments were encoded
\* after two records were written for the symbol.
C11_Witness ==
    /\ pc = "done"
    /\ Len(map.symbols) >= 1
    /\ map.symbols[1].type = "Text"
    /\ Cardinality(TextRecords(1)) = 2
    /\ Len(file.objects) = 2
    /\ file.objects[1].symbol # file.objects[2].symbol

\* The step of exportSymbols that exports the symbol at position sym_i + 1.
ExportingSymbol ==
    /\ pc = "exportSymbols"
    /\ sym_i < Len(map.symbols)
    /\ MapKey(sym_i + 1) \notin DOMAIN symbol_numbers
NextSymbol == map.symbols[sym_i + 1]
PartTypes(sym) ==
    [x \in DOMAIN nonNullParts(sym.parts, 1) |->
        PartSym(map, sym.parts[nonNullParts(sym.parts, 1)[x]]).type]
CountOf(types, type) == Cardinality({ x \in DOMAIN types : types[x] = type })
NewRecords == SubSeq(file'.symbols, Len(file.symbols) + 1, Len(file'.symbols))
UnhandledWarning == "Unhandled combined symbol"

\* C12: the step that exports a combined symbol of one area part and one
\* private line part appends, for version 9 or later, the record of the
\* border line and one area record with the border flag, whose border
\* symbol is the number of the line record and differs from its own number;
\* for version 8 it appends no record and one warning, and the loop goes on.
AreaWithPrivateBorder(sym) ==
    /\ sym.type = "Combined"
    /\ Len(PartTypes(sym)) = 2
    /\ CountOf(PartTypes(sym), "Area") = 1
    /\ CountOf(PartTypes(sym), "Line") = 1
    /\ \A k \in DOMAIN sym.parts :
          (~sym.parts[k].null /\ PartSym(map, sym.parts[k]).type = "Line")
              => sym.parts[k].priv
C12_AreaWithBorder ==
    [][ (ExportingSymbol /\ AreaWithPrivateBorder(NextSymbol)) =>
            IF ocd_version >= 9
            THEN /\ Len(NewRecords) = 2
                 /\ NewRecords[1].type = "Line"
                 /\ NewRecords[2].type = "Area"
                 /\ NewRecords[2].border_on
                 /\ ~NewRecords[1].border_on
                 /\ NewRecords[2].border_symbol = NewRecords[1].number
                 /\ NewRecords[2].number # NewRecords[1].number
                 /\ warnings' = warnings
            ELSE /\ file'.symbols = file.symbols
                 /\ warnings' = Append(warnings, UnhandledWarning)
                 /\ pc' = "exportSymbols"
                 /\ sym_i' = sym_i + 1 ]_vars

\* Version 9 has written the border line and the area with border of the
\* combined symbol that is the only symbol of the map.
C12_Witness ==
    /\ ocd_version = 9
    /\ pc = "done"
    /\ Len(map.symbols) = 1
    /\ AreaWithPrivateBorder(map.symbols[1])
    /\ Len(file.symbols) = 2
    /\ file.symbols[2].border_on
    /\ file.symbols[2].border_symbol = file.symbols[1].number

\* C13: for version 9 or later, the step that exports a combined symbol of
\* 2 or 3 parts, exactly one of them an area and exactly one a line, appends
\* an area record with the border flag and no warning.
OneAreaOneLine(sym) ==
    /\ sym.type = "Combined"
    /\ Len(PartTypes(sym)) \in {2, 3}
    /\ CountOf(PartTypes(sym), "Area") = 1
    /\ CountOf(PartTypes(sym), "Line") = 1
C13_AreaAndLineExported ==
    [][ (ExportingSymbol /\ ocd_version >= 9 /\ OneAreaOneLine(NextSymbol)) =>
            /\ \E x \in DOMAIN NewRecords :
                  NewRecords[x].type = "Area" /\ NewRecords[x].border_on
            /\ warnings' = warnings ]_vars

\* C13, as the code has it: for version 9 or later, a combined symbol whose
\* two set parts are one area and one line, in either order, is exported as
\* an area record with the border flag and no warning; with a third set part
\* it is not exported: no record, one warning.
C13_TwoPartAreaAndLine ==
    [][ (ExportingSymbol /\ ocd_version >= 9 /\ OneAreaOneLine(NextSymbol)) =>
            IF Len(PartTypes(NextSymbol)) = 2
            THEN /\ NewRecords # <<>>
                 /\ NewRecords[Len(NewRecords)].type = "Area"
                 /\ NewRecords[Len(NewRecords)].border_on
                 /\ symbol_numbers'[MapKey(sym_i + 1)] = NewRecords[Len(NewRecords)].number
                 /\ warnings' = warnings
            ELSE /\ NewRecords = <<>>
                 /\ warnings' = Append(warnings, UnhandledWarning) ]_vars

\* Version 9 has exported a combined symbol whose line part comes before
\* its area part as an area with border.
C13_Witness ==
    /\ ocd_version = 9
    /\ pc = "done"
    /\ Len(map.symbols) = 1
    /\ OneAreaOneLine(map.symbols[1])
    /\ PartTypes(map.symbols[1]) = <<"Line", "Area">>
    /\ Len(file.symbols) = 2
    /\ file.symbols[2].type = "Area"
    /\ file.symbols[2].border_on

\* C14: the step that exports a combined symbol either appends at least one
\* record, gives the combined symbol the number of its last record and adds
\* no warning, or appends no record, leaves the table of numbers as it was
\* and adds the one warning; a combined symbol with no set part or with
\* more than three always takes the second way.
CombinedExported ==
    /\ NewRecords # <<>>
    /\ MapKey(sym_i + 1) \in DOMAIN symbol_numbers'
    /\ symbol_numbers'[MapKey(sym_i + 1)] = NewRecords[Len(NewRecords)].number
    /\ warnings' = warnings
CombinedDropped ==
    /\ NewRecords = <<>>
    /\ symbol_numbers' = symbol_numbers
    /\ warnings' = Append(warnings, UnhandledWarning)
C14_AllOrNothing ==
    [][ (ExportingSymbol /\ NextSymbol.type = "Combined") =>
            /\ CombinedExported \/ CombinedDropped
            /\ (Len(PartTypes(NextSymbol)) \notin {1, 2, 3}) => CombinedDropped ]_vars

\* A combined symbol of four lines was dropped: no record, no number, the
\* warning.
C14_Witness ==
    /\ AfterSymbols
    /\ Len(map.symbols) = 1
    /\ map.symbols[1].type = "Combined"
    /\ Len(PartTypes(map.symbols[1])) = 4
    /\ file.symbols = <<>>
    /\ symbol_numbers = <<>>
    /\ warnings[Len(warnings)] = UnhandledWarning

\* C15: every point, line or area symbol the loop of exportSymbols has
\* passed, or that has a number, has exactly one record under its own
\* identity, and the ones not yet reached have none; so a line that is the
\* public border of combined symbols is written once, before or after them.
OwnRecords(i) == { x \in DOMAIN file.symbols : file.symbols[x].key = MapKey(i) }
C15_OneRecordPerSymbol ==
    \A i \in DOMAIN map.symbols :
        map.symbols[i].type \in {"Point", "Line", "Area"} =>
            Cardinality(OwnRecords(i)) =
                IF i <= sym_i \/ MapKey(i) \in DOMAIN symbol_numbers THEN 1 ELSE 0

\* Two combined symbols share the public border line that follows them: the
\* line's record is the first of the file and the only one of the line.
C15_Witness ==
    /\ pc = "done"
    /\ ocd_version = 9
    /\ Len(map.symbols) = 3
    /\ map.symbols[1].type = "Combined"
    /\ map.symbols[2].type = "Combined"
    /\ map.symbols[3].type = "Line"
    /\ file.symbols[1].key = MapKey(3)
    /\ OwnRecords(3) = {1}
    /\ Len(file.symbols) = 3
    /\ file.symbols[2].border_symbol = file.symbols[1].number
    /\ file.symbols[3].border_symbol = file.symbols[1].number

\* ------------------------------------------------- point symbol patterns

MaxElements == 2        \* most elements of a point symbol
MaxElementCoords == 2   \* most coordinates of an element object
PointSize == 8          \* sizeof(Ocd::OcdPoint32), the 8 of pattern_size / 8

\* sizeof(Element): exportSubPattern counts an element as two coordinates.
ElementSize == 2 * PointSize

\* A point symbol: the inner dot and the outer ring are drawn when the radius
\* or width is positive and the color is set; each element is a symbol with
\* the number of raw coordinates of its object.
NullPoint ==
    [null |-> TRUE, type |-> "Point", inner_radius |-> 0, inner_color |-> FALSE,
     outer_width |-> 0, outer_color |-> FALSE, elements |-> <<>>]
PatternSym(type, inner_radius, inner_color, outer_width, outer_color, elements) ==
    [null |-> FALSE, type |-> type, inner_radius |-> inner_radius,
     inner_color |-> inner_color, outer_width |-> outer_width,
     outer_color |-> outer_color, elements |-> elements]

hasInner(point) == point.inner_radius > 0 /\ point.inner_color
hasOuter(point) == point.outer_width > 0 /\ point.outer_color

\* The loop of getPatternSize over the elements from position i.
RECURSIVE elementCount(_, _)
elementCount(point, i) ==
    IF i > Len(point.elements) THEN 0
    ELSE LET element == point.elements[i]
             factor == IF element.symbol.type = "Point"
                       THEN (IF hasInner(element.symbol) THEN 1 ELSE 0)
                            + (IF hasOuter(element.symbol) THEN 1 ELSE 0)
                       ELSE 1
         IN  factor * (2 + element.coords) + elementCount(point, i + 1)

\* getPatternSize counting every point element once.
getPatternSize_once(point) ==
    IF point.null THEN 0
    ELSE LET all == [null |-> FALSE,
                     elements |-> [x \in DOMAIN point.elements |->
                                     [point.elements[x] EXCEPT !.symbol.type = "Line"]]]
         IN  (elementCount(all, 1)
              + (IF hasInner(point) THEN 2 + 1 ELSE 0)
              + (IF hasOuter(point) THEN 2 + 1 ELSE 0)) * PointSize

getPatternSize(point) ==
    IF point.null THEN 0
    ELSE (elementCount(point, 1)
          + (IF hasInner(point) THEN 2 + 1 ELSE 0)
          + (IF hasOuter(point) THEN 2 + 1 ELSE 0)) * PointSize

\* The bytes of a record after its header, as the sequence of the appended
\* elements and coordinates.
Chunk(kind, size, num_coords) == [kind |-> kind, size |-> size, num_coords |-> num_coords]

\* exportCoordinates appends one OcdPoint32 per coordinate and returns the
\* number of coordinates.
exportCoordinates(coords, byte_array) ==
    byte_array \o [x \in 1..coords |-> Chunk("coord", PointSize, 0)]

\* makeElement with the element's type and num_coords filled in.
makeElement(byte_array, type, coords) ==
    exportCoordinates(coords, Append(byte_array, Chunk(type, ElementSize, coords)))

exportSubPattern(coords, symbol, byte_array) ==
    CASE symbol.type = "Point" ->
            LET dot == IF hasInner(symbol)
                       THEN makeElement(byte_array, "TypeDot", coords)
                       ELSE byte_array
            IN  IF hasOuter(symbol)
                THEN makeElement(dot, "TypeCircle", coords)
                ELSE dot
      [] symbol.type = "Line" -> makeElement(byte_array, "TypeLine", coords)
      [] symbol.type = "Area" -> makeElement(byte_array, "TypeArea", coords)

\* The loop of exportPattern over the elements from position i.
RECURSIVE exportElements(_, _, _)
exportElements(point, i, byte_array) ==
    IF i > Len(point.elements) THEN byte_array
    ELSE exportElements(point, i + 1,
            exportSubPattern(point.elements[i].coords, point.elements[i].symbol,
                             byte_array))

exportPattern(point, byte_array) ==
    IF point.null THEN byte_array
    ELSE exportElements(point, 1, exportSubPattern(1, point, byte_array))

RECURSIVE dataSize(_)
dataSize(byte_array) ==
    IF byte_array = <<>> THEN 0
    ELSE Head(byte_array).size + dataSize(Tail(byte_array))

\* exportPointSymbol and exportAreaSymbol: the sizes of the header and the
\* bytes after the header.
exportPatternRecord(pattern_symbol) ==
    LET pattern_size == getPatternSize(pattern_symbol)
    IN  [pattern_size |-> pattern_size,
         data_size |-> pattern_size \div 8,
         data |-> exportPattern(pattern_symbol, <<>>)]

\* exportLineSymbolCommon: the four data sizes and the pattern size.
exportLineSymbolCommon(line) ==
    LET common == [primary_data_size |-> getPatternSize(line.mid) \div 8,
                   secondary_data_size |-> 0,
                   corner_data_size |-> getPatternSize(line.dash) \div 8,
                   start_data_size |-> getPatternSize(line.start) \div 8,
                   end_data_size |-> getPatternSize(line.end) \div 8]
    IN  [common |-> common,
         pattern_size |-> 8 * (common.primary_data_size + common.secondary_data_size
                               + common.corner_data_size + common.start_data_size
                               + common.end_data_size)]

\* The four exportPattern calls of exportLineSymbol.
linePatterns(line) ==
    exportPattern(line.end,
        exportPattern(line.start,
            exportPattern(line.dash,
                exportPattern(line.mid, <<>>))))

exportLinePatternRecord(line) ==
    LET c == exportLineSymbolCommon(line)
    IN  [pattern_size |-> c.pattern_size, common |-> c.common,
         data |-> linePatterns(line)]

\* The state of an exporter that is not exporting.
NoExport ==
    /\ default_version = 0
    /\ file_name = "map.ocd"
    /\ codec_available = TRUE
    /\ map = Map(0, <<>>, <<>>, 0)
    /\ format = "none"
    /\ ocd_version = 0
    /\ uses_registration_color = FALSE
    /\ area_offset = [x |-> 0, y |-> 0]
    /\ symbol_numbers = <<>>
    /\ text_format_mapping = <<>>
    /\ warnings = <<>>
    /\ file = EmptyFile
    /\ stream = <<>>
    /\ sym_i = 0
    /\ obj_i = 0
    /\ assigned = <<>>
    /\ phases = <<>>

exporter == <<inputs, format, ocd_version, uses_registration_color, area_offset,
              symbol_numbers, text_format_mapping, warnings, file, stream,
              sym_i, obj_i, assigned, phases>>

\* The dot and ring of a point symbol: none, the dot, the ring with a dot
\* that has a radius but no color, both, and the dot with a ring that has
\* a width but no color.
Rings ==
    { PatternSym("Point", 0, TRUE, 0, TRUE, <<>>),
      PatternSym("Point", 1, TRUE, 0, TRUE, <<>>),
      PatternSym("Point", 1, FALSE, 1, TRUE, <<>>),
      PatternSym("Point", 1, TRUE, 1, TRUE, <<>>),
      PatternSym("Point", 1, TRUE, 1, FALSE, <<>>) }

\* The symbols of elements: points that draw nothing, the ring, or the dot
\* and the ring; a line and an area.  A point has one coordinate, a line
\* one to MaxElementCoords, an area MaxElementCoords.
ElementSymbols ==
    { PatternSym("Point", 0, TRUE, 0, TRUE, <<>>),
      PatternSym("Point", 1, FALSE, 1, TRUE, <<>>),
      PatternSym("Point", 1, TRUE, 1, TRUE, <<>>),
      PatternSym("Line", 0, FALSE, 0, FALSE, <<>>),
      PatternSym("Area", 0, FALSE, 0, FALSE, <<>>) }
Elements ==
    { [symbol |-> s, coords |-> IF s.type = "Area" THEN MaxElementCoords ELSE 1] :
        s \in ElementSymbols }
    \cup { [symbol |-> PatternSym("Line", 0, FALSE, 0, FALSE, <<>>), coords |-> n] :
             n \in 1..MaxElementCoords }
PointSymbols ==
    { [ring EXCEPT !.elements = elements] :
        ring \in Rings, elements \in SeqsUpTo(Elements, MaxElements) }

\* The point symbols of a line: none, a dot, a ring with a line element and
\* a dot and ring with an area element of the most coordinates.
LinePoints ==
    { NullPoint,
      PatternSym("Point", 1, TRUE, 0, FALSE, <<>>),
      PatternSym("Point", 0, FALSE, 1, TRUE,
                 <<[symbol |-> PatternSym("Line", 0, FALSE, 0, FALSE, <<>>), coords |-> 1]>>),
      PatternSym("Point", 1, TRUE, 1, TRUE,
                 <<[symbol |-> PatternSym("Area", 0, FALSE, 0, FALSE, <<>>),
                    coords |-> MaxElementCoords]>>) }

PatternValues ==
    { [kind |-> "Point", symbol |-> p] : p \in PointSymbols }
    \cup { [kind |-> "Area", symbol |-> p] : p \in PointSymbols \cup {NullPoint} }
    \cup { [kind |-> "Line",
            symbol |-> [mid |-> m, dash |-> d, start |-> s, end |-> e]] :
            m \in LinePoints, d \in LinePoints, s \in LinePoints, e \in LinePoints }

InitPattern ==
    /\ NoExport
    /\ pc = "exportSymbol"
    /\ value \in PatternValues
    /\ result = [pattern_size |-> 0, data |-> <<>>]

\* result = exportPointSymbol(value.symbol)
callExportPointSymbol ==
    /\ pc = "exportSymbol"
    /\ value.kind = "Point"
    /\ pc' = "returned"
    /\ result' = exportPatternRecord(value.symbol)
    /\ UNCHANGED <<exporter, value>>

\* result = exportAreaSymbol(area) where value.symbol is the pattern symbol
\* that exportAreaSymbolCommon has chosen.
callExportAreaSymbol ==
    /\ pc = "exportSymbol"
    /\ value.kind = "Area"
    /\ pc' = "returned"
    /\ result' = exportPatternRecord(value.symbol)
    /\ UNCHANGED <<exporter, value>>

\* result = exportLineSymbol(value.symbol)
callExportLineSymbol ==
    /\ pc = "exportSymbol"
    /\ value.kind = "Line"
    /\ pc' = "returned"
    /\ result' = exportLinePatternRecord(value.symbol)
    /\ UNCHANGED <<exporter, value>>

NextPattern ==
    \/ callExportPointSymbol
    \/ callExportAreaSymbol
    \/ callExportLineSymbol

SpecPattern == InitPattern /\ [][NextPattern]_vars

\* The chunks of data that make up the bytes from offset from, length bytes
\* long.
RECURSIVE skipBytes(_, _)
skipBytes(byte_array, n) ==
    IF n <= 0 \/ byte_array = <<>> THEN byte_array
    ELSE skipBytes(Tail(byte_array), n - Head(byte_array).size)
RECURSIVE takeBytes(_, _)
takeBytes(byte_array, n) ==
    IF n <= 0 \/ byte_array = <<>> THEN <<>>
    ELSE <<Head(byte_array)>> \o takeBytes(Tail(byte_array), n - Head(byte_array).size)
Segment(byte_array, from, length) == takeBytes(skipBytes(byte_array, from), length)

\* C16: the bytes appended after the header of a point, area or line symbol
\* record are as many as the pattern size computed beforehand, data_size
\* counts them in units of 8, and in a line symbol record the data sizes of
\* the header delimit the patterns of the mid, dash, start and end symbol in
\* this order.
C16_PatternSize ==
    pc = "returned" =>
        /\ dataSize(result.data) = result.pattern_size
        /\ value.kind \in {"Point", "Area"} =>
              /\ result.data_size * 8 = dataSize(result.data)
              /\ result.pattern_size = getPatternSize(value.symbol)
        /\ value.kind = "Line" =>
              LET c == result.common
                  line == value.symbol
                  dash_at == 8 * c.primary_data_size
                  start_at == dash_at + 8 * c.corner_data_size
                  end_at == start_at + 8 * c.start_data_size
              IN  /\ Segment(result.data, 0, 8 * c.primary_data_size)
                        = exportPattern(line.mid, <<>>)
                  /\ Segment(result.data, dash_at, 8 * c.corner_data_size)
                        = exportPattern(line.dash, <<>>)
                  /\ Segment(result.data, start_at, 8 * c.start_data_size)
                        = exportPattern(line.start, <<>>)
                  /\ Segment(result.data, end_at, 8 * c.end_data_size)
                        = exportPattern(line.end, <<>>)

\* A point symbol with a ring and no dot, whose elements are a point with a
\* radius but no inner color and a line of two coordinates: three elements
\* and four coordinates were written.
C16_Witness ==
    /\ pc = "returned"
    /\ value.kind = "Point"
    /\ ~hasInner(value.symbol)
    /\ hasOuter(value.symbol)
    /\ Len(value.symbol.elements) = 2
    /\ value.symbol.elements[1].symbol = PatternSym("Point", 1, FALSE, 1, TRUE, <<>>)
    /\ value.symbol.elements[1].coords = 1
    /\ value.symbol.elements[2].symbol.type = "Line"
    /\ value.symbol.elements[2].coords = 2
    /\ [x \in DOMAIN result.data |-> result.data[x].kind]
          = <<"TypeCircle", "coord", "TypeCircle", "coord", "TypeLine", "coord", "coord">>
    /\ result.pattern_size = 3 * ElementSize + 4 * PointSize

\* ------------------------------------------------------- object records

MaxObjectCoords == 3    \* most raw coordinates of a point or path object
MaxLines == 2           \* most lines of a text object

\* exportTextData is called with chunks of 8 OcdPoint32 and 1024 / 8 chunks.
TextChunkSize == PointSize * 8
MaxTextChunks == 1024 \div 8

\* A text is known by its number of UTF-16 code units, of '\n' among them,
\* and by whether it starts with '\n'.
Text(units, newlines, starts_with_newline) ==
    [units |-> units, newlines |-> newlines, starts_with_newline |-> starts_with_newline]

\* The length of the text to encode: one more '\n' in front of a leading
\* '\n', and '\r\n' for every '\n'.
ocdTextLength(text) ==
    text.units + text.newlines + (IF text.starts_with_newline THEN 2 ELSE 0)

\* exportTextData without the resize.
exportTextData_unpadded(text, chunk_size, max_chunks) ==
    LET max_size == chunk_size * max_chunks
        encoded == 2 * ocdTextLength(text)
        truncated == encoded >= max_size
        text_size == IF truncated THEN 2 * ((max_size - 1) \div 2) ELSE encoded
    IN  [size |-> text_size, text_size |-> text_size, zero_from |-> text_size,
         truncated |-> truncated]

\* exportTextData: the UTF-16LE encoding has two bytes per code unit; text
\* of max_size bytes or more is cut to the code units that max_size - 1
\* bytes hold, with a warning; the result is resized by
\* (max_size - text_size) % chunk_size bytes, and std::fill writes zeros
\* from byte zero_from to the end.
exportTextData(text, chunk_size, max_chunks) ==
    LET max_size == chunk_size * max_chunks
        encoded == 2 * ocdTextLength(text)
        truncated == encoded >= max_size
        text_size == IF truncated THEN 2 * ((max_size - 1) \div 2) ELSE encoded
    IN  [size |-> text_size + ((max_size - text_size) % chunk_size),
         text_size |-> text_size,
         zero_from |-> text_size,
         truncated |-> truncated]

\* exportTextCoordinatesBox appending the five coordinates of a single
\* anchor text.
exportTextCoordinatesBox_five(object, byte_array) ==
    IF object.num_lines = 0 THEN byte_array ELSE exportCoordinates(5, byte_array)

exportTextCoordinatesSingle(object, byte_array) ==
    IF object.num_lines = 0 THEN byte_array ELSE exportCoordinates(5, byte_array)

exportTextCoordinatesBox(object, byte_array) ==
    IF object.num_lines = 0 THEN byte_array ELSE exportCoordinates(4, byte_array)

\* exportObjectCommon for an object whose type the caller has set: the
\* header's num_items and num_text, the precomputed items_size, the bytes
\* after the header, and whether the text was truncated.
exportObjectCommon(object, type) ==
    LET is_text == type \in {4, 5}
        num_items == CASE type = 4 -> IF object.num_lines = 0 THEN 0 ELSE 5
                       [] type = 5 -> IF object.num_lines = 0 THEN 0 ELSE 4
                       [] OTHER -> object.coords
        has_text == is_text /\ num_items > 0
        text_data == IF has_text
                     THEN exportTextData(object.text, TextChunkSize, MaxTextChunks)
                     ELSE [size |-> 0, text_size |-> 0, truncated |-> FALSE]
        num_text == text_data.size \div PointSize
        payload == Chunk("text", text_data.size, 0)
        data == IF num_items > 0
                THEN CASE type = 4 ->
                            Append(exportTextCoordinatesSingle(object, <<>>), payload)
                       [] type = 5 ->
                            Append(exportTextCoordinatesBox(object, <<>>), payload)
                       [] OTHER -> exportCoordinates(object.coords, <<>>)
                ELSE <<>>
    IN  [type |-> type, num_items |-> num_items, num_text |-> num_text,
         items_size |-> (num_items + num_text) * PointSize,
         data |-> data, truncated |-> text_data.truncated]

TruncationWarning == "Text truncated at '|')"

\* The objects: points, paths of line and of area symbols with no to
\* MaxObjectCoords coordinates, and texts with a single anchor or a box, no
\* to MaxLines lines, and short texts and texts around the 8192 bytes that
\* the text data can hold.
NoText == Text(0, 0, FALSE)
Texts ==
    { Text(n + k, k, FALSE) : n \in {0, 1, 31, 32, 33, 4094, 4095, 4096, 5000}, k \in {0, 1} }
    \cup { Text(n + 1, 1, TRUE) : n \in {0, 30, 31, 4092, 4093, 4094} }
ObjectValues ==
    { [kind |-> "Point", coords |-> 1, area |-> FALSE, single_anchor |-> FALSE,
       num_lines |-> 0, text |-> NoText] }
    \cup { [kind |-> "Path", coords |-> n, area |-> a, single_anchor |-> FALSE,
            num_lines |-> 0, text |-> NoText] :
            n \in 0..MaxObjectCoords, a \in BOOLEAN }
    \cup { [kind |-> "Text", coords |-> IF s THEN 1 ELSE 2, area |-> FALSE,
            single_anchor |-> s, num_lines |-> l, text |-> t] :
            s \in BOOLEAN, l \in 0..MaxLines, t \in Texts }

InitObject ==
    /\ NoExport
    /\ pc = "exportObject"
    /\ value \in ObjectValues
    /\ result = [type |-> 0, num_items |-> 0, num_text |-> 0, items_size |-> 0,
                 data |-> <<>>, truncated |-> FALSE]

exporterButWarnings ==
    <<inputs, format, ocd_version, uses_registration_color, area_offset,
      symbol_numbers, text_format_mapping, file, stream, sym_i, obj_i,
      assigned, phases>>

\* result = exportPointObject(value)
callExportPointObject ==
    /\ pc = "exportObject"
    /\ value.kind = "Point"
    /\ pc' = "returned"
    /\ result' = exportObjectCommon(value, 1)
    /\ UNCHANGED <<exporterButWarnings, warnings, value>>

\* result = exportPathObject(value)
callExportPathObject ==
    /\ pc = "exportObject"
    /\ value.kind = "Path"
    /\ pc' = "returned"
    /\ result' = exportObjectCommon(value, IF value.area THEN 3 ELSE 2)
    /\ UNCHANGED <<exporterButWarnings, warnings, value>>

\* result = exportTextObject(value)
callExportTextObject ==
    /\ pc = "exportObject"
    /\ value.kind = "Text"
    /\ pc' = "returned"
    /\ result' = exportObjectCommon(value, IF value.single_anchor THEN 4 ELSE 5)
    /\ warnings' = IF result'.truncated
                   THEN Append(warnings, TruncationWarning)
                   ELSE warnings
    /\ UNCHANGED <<exporterButWarnings, value>>

NextObject ==
    \/ callExportPointObject
    \/ callExportPathObject
    \/ callExportTextObject

SpecObject == InitObject /\ [][NextObject]_vars

\* C17: the bytes written after the header of an object record are 8 times
\* num_items + num_text; a point or path object has its raw coordinates as
\* items and no text; a text object with a line has 5 items (single anchor,
\* type 4) or 4 items (box, type 5) followed by the text payload of
\* 8 * num_text bytes; a text object with no line has no item and no bytes.
C17_ObjectRecordSize ==
    pc = "returned" =>
        /\ dataSize(result.data) = PointSize * (result.num_items + result.num_text)
        /\ dataSize(result.data) = result.items_size
        /\ value.kind \in {"Point", "Path"} =>
              /\ result.num_items = value.coords
              /\ result.num_text = 0
              /\ result.type \in {1, 2, 3}
        /\ (value.kind = "Text" /\ value.num_lines >= 1) =>
              /\ result.type = (IF value.single_anchor THEN 4 ELSE 5)
              /\ result.num_items = (IF value.single_anchor THEN 5 ELSE 4)
              /\ Len(result.data) = result.num_items + 1
              /\ \A x \in 1..result.num_items : result.data[x].kind = "coord"
              /\ result.data[Len(result.data)].kind = "text"
              /\ result.data[Len(result.data)].size = PointSize * result.num_text
        /\ (value.kind = "Text" /\ value.num_lines = 0) =>
              /\ result.num_items = 0
              /\ result.num_text = 0
              /\ result.data = <<>>

\* A box text of two lines whose text is cut: 4 coordinates and the 8192
\* bytes of text data, and the warning.
C17_Witness ==
    /\ pc = "returned"
    /\ value.kind = "Text"
    /\ ~value.single_anchor
    /\ value.num_lines = 2
    /\ value.text.units = 5000
    /\ result.type = 5
    /\ result.num_items = 4
    /\ result.num_text = MaxTextChunks * 8
    /\ dataSize(result.data) = 4 * PointSize + TextChunkSize * MaxTextChunks
    /\ warnings = <<TruncationWarning>>

\* ------------------------------------------- a second call of doExport

MaxExports == 2         \* calls of doExport on one exporter

Exports == Cardinality({ x \in DOMAIN phases : phases[x] = "doExport" })

\* doExport() is called again on the exporter that has finished an export:
\* the file and the loop counters are locals of the new call; the members
\* symbol_numbers, text_format_mapping, the warnings and the stream are the
\* exporter's, and no statement of the export resets them.
doExportAgain ==
    /\ pc = "done"
    /\ Exports < MaxExports
    /\ pc' = "doExport"
    /\ file' = EmptyFile
    /\ sym_i' = 0
    /\ obj_i' = 0
    /\ phases' = Append(phases, "return")
    /\ UNCHANGED <<inputs, call, format, ocd_version, uses_registration_color,
                   area_offset, symbol_numbers, text_format_mapping, warnings,
                   stream, assigned>>

NextAgain == Next \/ doExportAgain

SpecAgain == Init /\ [][NextAgain]_vars

\* The files that exportImplementation has written to the stream.
WrittenFiles == SelectSeq(stream, LAMBDA w : w.by = "OcdFileExport")

\* C18: when a call of doExport starts, the table of symbol numbers and the
\* table of text alignments are empty, and the second export of one
\* exporter has written the symbol records of the first.
C18_TablesEmptyAtStart ==
    /\ pc = "doExport" => symbol_numbers = <<>> /\ text_format_mapping = <<>>
    /\ Len(WrittenFiles) = 2 => WrittenFiles[2].data.symbols = WrittenFiles[1].data.symbols

\* ----------------------------------------------------- palette colors

BestDistanceV6 == 2100000   \* initial best_distance of getPaletteColorV6
BestDistanceV9 == 10000     \* initial best_distance of getPaletteColorV9

Rgb(r, g, b) == [r |-> r, g |-> g, b |-> b]
qRgbWhite == Rgb(255, 255, 255)

sq(n) == n * n
Abs(n) == IF n < 0 THEN -n ELSE n
RoundDiv(a, b) == (2 * a + b) \div (2 * b)

\* qGray(rgb): (r * 11 + g * 16 + b * 5) / 32.
qGray(rgb) == (rgb.r * 11 + rgb.g * 16 + rgb.b * 5) \div 32

\* QColor(rgb).toHsv() as read through hue(), saturation() and value(): hue
\* in degrees, -1 for a gray; saturation and value in 0..255.
toHsv(rgb) ==
    LET max == Max(rgb.r, Max(rgb.g, rgb.b))
        min == Min(rgb.r, Min(rgb.g, rgb.b))
        delta == max - min
        sixth == CASE rgb.r = max -> 6000 * (rgb.g - rgb.b)
                   [] rgb.g = max -> 6000 * (2 * delta + rgb.b - rgb.r)
                   [] OTHER -> 6000 * (4 * delta + rgb.r - rgb.g)
        turned == IF sixth < 0 THEN sixth + 36000 * delta ELSE sixth
    IN  IF delta = 0
        THEN [hue |-> -1, saturation |-> 0, value |-> max]
        ELSE [hue |-> RoundDiv(turned, delta) \div 100,
              saturation |-> RoundDiv(65535 * delta, max) \div 256,
              value |-> max]

Hsv(hue, saturation, val) == [hue |-> hue, saturation |-> saturation, value |-> val]

\* palette[16] of getPaletteColorV6, by index + 1.
paletteV6 ==
    << Hsv(-1, 0, 0), Hsv(0, 255, 128), Hsv(120, 255, 128), Hsv(60, 255, 128),
       Hsv(240, 255, 128), Hsv(300, 255, 128), Hsv(180, 255, 128), Hsv(-1, 0, 128),
       Hsv(-1, 0, 192), Hsv(0, 255, 255), Hsv(120, 255, 255), Hsv(60, 255, 255),
       Hsv(240, 255, 255), Hsv(300, 255, 255), Hsv(180, 255, 255), Hsv(-1, 0, 255) >>

\* original_palette[16]: the colors that palette[16] was generated from.
original_palette ==
    << Rgb(0, 0, 0), Rgb(128, 0, 0), Rgb(0, 128, 0), Rgb(128, 128, 0),
       Rgb(0, 0, 128), Rgb(128, 0, 128), Rgb(0, 128, 128), Rgb(128, 128, 128),
       Rgb(192, 192, 192), Rgb(255, 0, 0), Rgb(0, 255, 0), Rgb(255, 255, 0),
       Rgb(0, 0, 255), Rgb(255, 0, 255), Rgb(0, 255, 255), Rgb(255, 255, 255) >>

\* The indices that the loop of getPaletteColorV6 visits.
trueColorsV6 == <<1, 2, 3, 4, 5, 6, 9, 10, 11, 12, 13, 14>>

distanceV6(color, i) ==
    LET palette_color == paletteV6[i + 1]
        hue_dist == Abs(color.hue - palette_color.hue)
        distance == 10 * sq(Min(hue_dist, 360 - hue_dist))
                    + sq(color.saturation - palette_color.saturation)
                    + sq(color.value - palette_color.value)
    IN  CASE i = 1 -> distance * 3
          [] i = 3 -> distance * 4
          [] i = 11 -> distance * 4
          [] i = 9 -> distance * 6
          [] OTHER -> distance * 2

\* The loop of getPaletteColorV6 from position k of trueColorsV6.
RECURSIVE searchV6(_, _, _, _)
searchV6(color, k, best_index, best_distance) ==
    IF k > Len(trueColorsV6) THEN best_index
    ELSE LET i == trueColorsV6[k]
             distance == distanceV6(color, i)
         IN  IF distance < best_distance
             THEN searchV6(color, k + 1, i, distance)
             ELSE searchV6(color, k + 1, best_index, best_distance)

\* The grays of getPaletteColorV6.
grayV6(rgb) ==
    LET gray == qGray(rgb)
    IN  IF gray >= 192 THEN 8 ELSE IF gray >= 128 THEN 7 ELSE 0

\* getPaletteColorV6 without the early return for white.
getPaletteColorV6_nowhite(rgb) ==
    LET color == toHsv(rgb)
    IN  IF color.hue = -1 \/ color.saturation < 32
        THEN [index |-> grayV6(rgb), searched |-> FALSE]
        ELSE [index |-> searchV6(color, 1, 0, BestDistanceV6), searched |-> TRUE]

\* getPaletteColorV6: the index, and whether the loop over the palette ran.
getPaletteColorV6(rgb) ==
    LET color == toHsv(rgb)
    IN  IF rgb = qRgbWhite THEN [index |-> 15, searched |-> FALSE]
        ELSE IF color.hue = -1 \/ color.saturation < 32
        THEN [index |-> grayV6(rgb), searched |-> FALSE]
        ELSE [index |-> searchV6(color, 1, 0, BestDistanceV6), searched |-> TRUE]

\* palette[125] of getPaletteColorV9: the colors of five levels per channel,
\* red slowest, blue fastest.
color_levels == <<0, 64, 128, 192, 255>>
paletteV9 ==
    [x \in 1..125 |->
        Rgb(color_levels[((x - 1) \div 25) + 1],
            color_levels[(((x - 1) \div 5) % 5) + 1],
            color_levels[((x - 1) % 5) + 1])]

distanceV9(rgb, i) ==
    LET palette_color == paletteV9[i + 1]
    IN  2 * sq(rgb.r - palette_color.r) + 4 * sq(rgb.g - palette_color.g)
        + 3 * sq(rgb.b - palette_color.b)

\* The loop of getPaletteColorV9 over the indices i..last; best holds
\* best_index and best_distance.
RECURSIVE searchRangeV9(_, _, _, _)
searchRangeV9(rgb, i, last, best) ==
    IF i > last THEN best
    ELSE LET distance == distanceV9(rgb, i)
         IN  IF distance < best.distance
             THEN searchRangeV9(rgb, i + 1, last, [index |-> i, distance |-> distance])
             ELSE searchRangeV9(rgb, i + 1, last, best)

\* The loop of getPaletteColorV9 over the 125 indices, one level of red
\* after the other.
searchV9(rgb, best_index, best_distance) ==
    LET b0 == searchRangeV9(rgb, 0, 24, [index |-> best_index, distance |-> best_distance])
        b1 == searchRangeV9(rgb, 25, 49, [index |-> b0.index, distance |-> b0.distance])
        b2 == searchRangeV9(rgb, 50, 74, [index |-> b1.index, distance |-> b1.distance])
        b3 == searchRangeV9(rgb, 75, 99, [index |-> b2.index, distance |-> b2.distance])
        b4 == searchRangeV9(rgb, 100, 124, [index |-> b3.index, distance |-> b3.distance])
    IN  b4.index

\* getPaletteColorV9: the index, and whether the loop over the palette ran.
getPaletteColorV9(rgb) ==
    IF rgb = qRgbWhite THEN [index |-> 124, searched |-> FALSE]
    ELSE [index |-> searchV9(rgb, 0, BestDistanceV9), searched |-> TRUE]

\* The channel values tried: the levels of both palettes and values next to
\* and between them.
ChannelValues == {0, 1, 31, 32, 63, 64, 96, 127, 128, 160, 191, 192, 254, 255}
RgbValues == { Rgb(r, g, b) : r \in ChannelValues, g \in ChannelValues, b \in ChannelValues }

InitPalette ==
    /\ NoExport
    /\ pc \in {"getPaletteColorV6", "getPaletteColorV9"}
    /\ value \in RgbValues
    /\ result = [index |-> 0, searched |-> FALSE]

\* result = getPaletteColorV6(value)
callGetPaletteColorV6 ==
    /\ pc = "getPaletteColorV6"
    /\ pc' = "returnedV6"
    /\ result' = getPaletteColorV6(value)
    /\ UNCHANGED <<exporter, value>>

\* result = getPaletteColorV9(value)
callGetPaletteColorV9 ==
    /\ pc = "getPaletteColorV9"
    /\ pc' = "returnedV9"
    /\ result' = getPaletteColorV9(value)
    /\ UNCHANGED <<exporter, value>>

NextPalette == callGetPaletteColorV6 \/ callGetPaletteColorV9

SpecPalette == InitPalette /\ [][NextPalette]_vars

\* C19: the index a quantizer returns is the one the function gives for the
\* RGB value, an index of the palette; white returns 15 and 124 without
\* the loop over the palette; the color of a palette entry returns the
\* entry's index, for the 16 and for the 125 entries.
C19_PaletteQuantizers ==
    /\ pc = "returnedV6" =>
          /\ result = getPaletteColorV6(value)
          /\ result.index \in 0..15
          /\ value = qRgbWhite => result = [index |-> 15, searched |-> FALSE]
          /\ \A i \in 0..15 : value = original_palette[i + 1] => result.index = i
    /\ pc = "returnedV9" =>
          /\ result = getPaletteColorV9(value)
          /\ result.index \in 0..124
          /\ value = qRgbWhite => result = [index |-> 124, searched |-> FALSE]
          /\ \A i \in 0..124 : value = paletteV9[i + 1] => result.index = i

\* Olive, entry 3 of the 16 colors, was found by the loop; every entry of
\* both palettes is among the values tried.
C19_Witness ==
    /\ Range(original_palette) \subseteq RgbValues
    /\ Range(paletteV9) \subseteq RgbValues
    /\ pc = "returnedV6"
    /\ value = Rgb(128, 128, 0)
    /\ result = [index |-> 3, searched |-> TRUE]

\* C20: in a version 8 export of notes longer than 32767 bytes, the notes
\* that are written are shorter than the map's and fit with their
\* terminating zero in 32768 bytes; the export throws only for too many
\* colors, and the finished export has a warning.
LongNotesV8 == format = "V8" /\ map.notes_len > MaxNotesV8 - 1
C20_LongNotesV8 ==
    LongNotesV8 =>
        /\ AfterSetup =>
              /\ file.info_bytes <= MaxNotesV8
              /\ file.info_bytes < map.notes_len + 1
        /\ pc = "FileFormatException" =>
              map.num_colors > colorLimitV8(uses_registration_color)
        /\ pc # "aborted"
        /\ pc = "done" => warnings # <<>> /\ Len(WrittenFiles) = 1

\* Notes of 40000 bytes were exported to version 8: 23767 bytes and the
\* zero were written.
C20_Witness ==
    /\ pc = "done"
    /\ format = "V8"
    /\ map.notes_len = MaxNotesV8 + 7232
    /\ Len(WrittenFiles) = 1
    /\ WrittenFiles[1].data.info_size = MaxNotesV8
    /\ WrittenFiles[1].data.info_bytes = TruncateNotesV8 + 1
    /\ warnings # <<>>

\* ------------------------------------------------------------ area offset

OcdBounds == Rect(-OcdBound, -OcdBound, OcdBound, OcdBound)
AdjustedWarning == "Coordinates are adjusted to fit into the OCAD 8 drawing area"
RemainWarning == "Some coordinates remain outside of the OCAD 8 drawing area"
OffsetCalculated == "calculateAreaOffset" \in Range(phases)
ZeroOffset == area_offset.x = 0 /\ area_offset.y = 0
ExtentTooLarge ==
    LET e == calculateExtent(map)
    IN e.r - e.l >= 2 * OcdBound \/ e.b - e.t >= 2 * OcdBound
EachObjectOutside ==
    /\ map.objects # <<>>
    /\ \A i \in 1..Len(map.objects) :
          /\ isValid(map.objects[i].extent)
          /\ ~intersects(map.objects[i].extent, OcdBounds)
ExtentOutside ==
    isValid(calculateExtent(map)) /\ ~intersects(calculateExtent(map), OcdBounds)

MaxHeap == 2

FreeCell == [live |-> FALSE, obj |-> Obj("Point", 1, 0, NullRect)]
Cell(object) == [live |-> TRUE, obj |-> object]

DuplicateMaps ==
    { Map(1, <<PointSym(<<1, 0>>, FALSE, {})>>, objects, 0) :
        objects \in { <<Obj("Point", 1, 0, a)>> : a \in SideExtents }
                    \cup { <<Obj("Point", 1, 0, a), Obj("Point", 1, 0, b)>> :
                             a \in SideExtents, b \in SideExtents } }

InitDuplicate ==
    /\ default_version = 8
    /\ file_name = "map.ocd"
    /\ codec_available = TRUE
    /\ map \in DuplicateMaps
    /\ format = "OCD8"
    /\ ocd_version = 8
    /\ uses_registration_color = FALSE
    /\ area_offset = calculateAreaOffset(map).offset
    /\ symbol_numbers = <<>>
    /\ text_format_mapping = <<>>
    /\ warnings = <<>>
    /\ file = EmptyFile
    /\ stream = <<>>
    /\ sym_i = 0
    /\ obj_i = 0
    /\ assigned = <<>>
    /\ phases = <<>>
    /\ pc = "getObject"
    /\ value = [heap |-> [a \in 1..(Len(map.objects) + MaxHeap) |->
                            IF a <= Len(map.objects) THEN Cell(map.objects[a])
                            ELSE FreeCell],
                object |-> 0, duplicate |-> 0]
    /\ result = 0

loopState == <<inputs, format, ocd_version, uses_registration_color, area_offset,
               text_format_mapping, warnings, stream, sym_i, assigned, phases,
               result>>

\* const auto* object = part->getObject(o); std::unique_ptr<Object> duplicate;
\* and the test of area_offset.
getObject ==
    /\ pc = "getObject"
    /\ obj_i < Len(map.objects)
    /\ value' = [value EXCEPT !.object = obj_i + 1, !.duplicate = 0]
    /\ pc' = IF area_offset.x # 0 \/ area_offset.y # 0 THEN "duplicate" ELSE "export"
    /\ UNCHANGED <<loopState, symbol_numbers, file, obj_i>>

\* duplicate.reset(object->duplicate());
resetDuplicate ==
    /\ pc = "duplicate"
    /\ \E a \in DOMAIN value.heap :
          /\ ~value.heap[a].live
          /\ value' = [value EXCEPT !.heap[a] = Cell(value.heap[value.object].obj),
                                    !.duplicate = a]
    /\ pc' = "move"
    /\ UNCHANGED <<loopState, symbol_numbers, file, obj_i>>

\* duplicate->move(-area_offset); object = duplicate.get();
moveDuplicate ==
    /\ pc = "move"
    /\ value' = [value EXCEPT !.heap[value.duplicate].obj = moved(@, area_offset),
                              !.object = value.duplicate]
    /\ pc' = "export"
    /\ UNCHANGED <<loopState, symbol_numbers, file, obj_i>>

\* object->update(); the switch; file.objects().insert(ocd_object, entry);
exportObject ==
    /\ pc = "export"
    /\ file' = [file EXCEPT !.objects = Append(@,
                    exportPointObject(symbol_numbers, value.heap[value.object].obj,
                                      obj_i + 1, value.duplicate # 0))]
    /\ symbol_numbers' = touched(symbol_numbers,
                                 MapKey(value.heap[value.object].obj.symbol))
    /\ pc' = "endOfBody"
    /\ UNCHANGED <<loopState, value, obj_i>>

\* The end of the loop body: ~unique_ptr deletes the duplicate; ++o.
endOfBody ==
    /\ pc = "endOfBody"
    /\ value' = IF value.duplicate # 0
                THEN [value EXCEPT !.heap[value.duplicate] = FreeCell]
                ELSE value
    /\ obj_i' = obj_i + 1
    /\ pc' = "getObject"
    /\ UNCHANGED <<loopState, symbol_numbers, file>>

\* The loops end.
endOfObjects ==
    /\ pc = "getObject"
    /\ obj_i = Len(map.objects)
    /\ pc' = "exportExtras"
    /\ UNCHANGED <<loopState, symbol_numbers, file, obj_i, value>>

NextDuplicate ==
    \/ getObject
    \/ resetDuplicate
    \/ moveDuplicate
    \/ exportObject
    \/ endOfBody
    \/ endOfObjects

SpecDuplicate == InitDuplicate /\ [][NextDuplicate]_vars

LiveDuplicates ==
    { a \in DOMAIN value.heap : a > Len(map.objects) /\ value.heap[a].live }

\* C22: the objects of the map keep their coordinates; when the area offset
\* is not zero every object is encoded from a duplicate moved by minus the
\* area offset, otherwise from the object itself; at most one duplicate
\* exists at any time, and none when the loop body has ended.
C22_DuplicateMoved ==
    /\ \A a \in 1..Len(map.objects) : value.heap[a] = Cell(map.objects[a])
    /\ Len(file.objects) <= Len(map.objects)
    /\ \A k \in 1..Len(file.objects) :
          LET x == area_offset.x \div NativePerMm
              y == area_offset.y \div NativePerMm
              e == map.objects[k].extent
          IN  /\ file.objects[k].duplicate = (area_offset.x # 0 \/ area_offset.y # 0)
              /\ file.objects[k].bottom_left_bound
                    = convertPoint((e.l - x) * NativePerMm, (e.b - y) * NativePerMm)
              /\ file.objects[k].top_right_bound
                    = convertPoint((e.r - x) * NativePerMm, (e.t - y) * NativePerMm)
    /\ Cardinality(LiveDuplicates) <= 1
    /\ pc \in {"getObject", "exportExtras"} => LiveDuplicates = {}

\* Both objects of a map were encoded from moved duplicates, and the second
\* duplicate has been deleted.
C22_Witness ==
    /\ pc = "exportExtras"
    /\ Len(map.objects) = 2
    /\ area_offset.x # 0
    /\ Len(file.objects) = 2
    /\ file.objects[2].duplicate
    /\ file.objects[1].bottom_left_bound # file.objects[2].bottom_left_bound

\* ------------------------------------------------- exportCoordinates, flags

MaxPoints == 3          \* longest coordinate list given to exportCoordinates
CountModulus == 65536   \* quint16 num_points

\* A MapCoord with its flags, and the symbol argument: null, or a symbol
\* with its type and, for a line, isDashed() and the dash symbol ("null",
\* "empty" or "set").
Point(x, y, curve_start, hole_point, dash_point) ==
    [x |-> x, y |-> y, curve_start |-> curve_start, hole_point |-> hole_point,
     dash_point |-> dash_point]
NoSymbol == [type |-> "null", dashed |-> FALSE, dash_symbol |-> "null"]
CoordSymbol(type, dashed, dash_symbol) ==
    [type |-> type, dashed |-> dashed, dash_symbol |-> dash_symbol]

\* The flags with the first and second curve-control flag exchanged.
encodePoint_swapped(point, symbol, curve_start, hole_point, curve_continue) ==
    [p |-> convertPoint(point.x, point.y), size |-> PointSize,
     x_flags |-> (IF curve_start THEN {"FlagCtl2"} ELSE {})
                 \cup (IF curve_continue THEN {"FlagCtl1"} ELSE {}),
     y_flags |-> IF hole_point THEN {"FlagHole"} ELSE {}]

\* The body of the loop of exportCoordinates up to the update of the three
\* locals: the converted point p, and the flags or-ed into p.x and p.y.
encodePoint(point, symbol, curve_start, hole_point, curve_continue) ==
    [p |-> convertPoint(point.x, point.y), size |-> PointSize,
     x_flags |-> (IF curve_start THEN {"FlagCtl1"} ELSE {})
                 \cup (IF curve_continue THEN {"FlagCtl2"} ELSE {}),
     y_flags |-> (IF ~point.dash_point THEN {}
                  ELSE IF symbol.type # "Line" THEN {"FlagCorner"}
                  ELSE IF symbol.dash_symbol \in {"null", "empty"} /\ symbol.dashed
                       THEN {"FlagDash"}
                  ELSE {"FlagCorner"})
                 \cup (IF hole_point THEN {"FlagHole"} ELSE {})]

\* The loop of exportCoordinates from point i on, with the values of the
\* three locals.
RECURSIVE exportCoordinatesFrom(_, _, _, _, _, _)
exportCoordinatesFrom(coords, i, symbol, curve_start, hole_point, curve_continue) ==
    IF i > Len(coords) THEN <<>>
    ELSE <<encodePoint(coords[i], symbol, curve_start, hole_point, curve_continue)>>
         \o exportCoordinatesFrom(coords, i + 1, symbol, coords[i].curve_start,
                                  coords[i].hole_point, curve_start)

\* quint16 exportCoordinates(coords, symbol, byte_array) with the flags:
\* the byte array as a list of OcdPoint32, and the returned count.
exportCoordinatesFlags(coords, symbol, byte_array) ==
    [byte_array |-> byte_array
                    \o exportCoordinatesFrom(coords, 1, symbol, FALSE, FALSE, FALSE),
     num_points |-> Len(coords) % CountModulus]

FlagPoints ==
    { Point(10, 20, c, h, d) : c \in BOOLEAN, h \in BOOLEAN, d \in BOOLEAN }
CoordSymbols ==
    { NoSymbol, CoordSymbol("Point", FALSE, "null"),
      CoordSymbol("Line", TRUE, "null"), CoordSymbol("Line", TRUE, "empty"),
      CoordSymbol("Line", TRUE, "set"), CoordSymbol("Line", FALSE, "null") }

InitCoordinates ==
    /\ NoExport
    /\ pc = "exportCoordinates"
    /\ value \in { [coords |-> coords, symbol |-> symbol] :
                     coords \in SeqsUpTo(FlagPoints, MaxPoints), symbol \in CoordSymbols }
    /\ result = [byte_array |-> <<>>, num_points |-> 0, calls |-> 0]

\* result.num_points = exportCoordinates(value.coords, value.symbol,
\* result.byte_array), up to twice on the same byte array, as exportPattern
\* does for the elements of a symbol.
callExportCoordinates ==
    /\ pc = "exportCoordinates"
    /\ result.calls < 2
    /\ LET r == exportCoordinatesFlags(value.coords, value.symbol, result.byte_array)
       IN  result' = [byte_array |-> r.byte_array, num_points |-> r.num_points,
                      calls |-> result.calls + 1]
    /\ UNCHANGED <<exporter, pc, value>>

returnCoordinates ==
    /\ pc = "exportCoordinates"
    /\ result.calls > 0
    /\ pc' = "returned"
    /\ UNCHANGED <<exporter, call>>

NextCoordinates == callExportCoordinates \/ returnCoordinates

SpecCoordinates == InitCoordinates /\ [][NextCoordinates]_vars

\* C23: in the output of every call, point i (from 0) has the first
\* curve-control flag iff i >= 1 and point i-1 is a curve start, the second
\* iff i >= 2 and point i-2 is a curve start, and the hole flag iff i >= 1
\* and point i-1 is a hole point; the first point of every call has none
\* of the three, whatever the call before ended with; every call appends
\* one 8 byte point per coordinate and returns the number of coordinates.
C23_CoordinateFlags ==
    LET n == Len(value.coords)
        out(c, i) == result.byte_array[(c - 1) * n + i + 1]
    IN  /\ Len(result.byte_array) = result.calls * n
        /\ dataSize(result.byte_array) = PointSize * result.calls * n
        /\ result.calls > 0 => result.num_points = n
        /\ \A c \in 1..result.calls : \A i \in 0..(n - 1) :
              /\ "FlagCtl1" \in out(c, i).x_flags
                    <=> (i >= 1 /\ value.coords[i].curve_start)
              /\ "FlagCtl2" \in out(c, i).x_flags
                    <=> (i >= 2 /\ value.coords[i - 1].curve_start)
              /\ "FlagHole" \in out(c, i).y_flags
                    <=> (i >= 1 /\ value.coords[i].hole_point)

\* The second call on a list of three points that starts with a curve
\* start and ends with a curve start and hole point: the third point has
\* the second curve-control flag, the first point of the second call none.
C23_Witness ==
    /\ result.calls = 2
    /\ Len(value.coords) = 3
    /\ value.coords[1].curve_start
    /\ value.coords[3].curve_start /\ value.coords[3].hole_point
    /\ "FlagCtl2" \in result.byte_array[3].x_flags
    /\ result.byte_array[4].x_flags = {}
    /\ "FlagHole" \notin result.byte_array[4].y_flags

\* ------------------------------------------------- exportAreaSymbolCommon

MaxPatterns == 3        \* most fill patterns of an area symbol

\* Ocd::HatchMode and Ocd::StructureMode, the values of the file format.
\* The record is zero-initialised, so "none" is 0 for both.
HatchNone == 0
HatchSingle == 1
HatchCross == 2
StructureNone == 0
StructureAlignedRows == 1
StructureShiftedRows == 2

\* int convertRotation(float angle), for an angle given in whole degrees.
convertRotation(angle) == 10 * angle

\* AreaSymbol::FillPattern.  point is the pattern's point symbol (0: none).
LinePattern(line_color, line_width, line_spacing, angle) ==
    [type |-> "LinePattern", line_color |-> line_color, line_width |-> line_width,
     line_spacing |-> line_spacing, angle |-> angle, rotatable |-> FALSE,
     point_distance |-> 0, line_offset |-> 0, point |-> 0]
PointPattern(point, point_distance, line_spacing, line_offset, angle) ==
    [type |-> "PointPattern", line_color |-> -1, line_width |-> 0,
     line_spacing |-> line_spacing, angle |-> angle, rotatable |-> FALSE,
     point_distance |-> point_distance, line_offset |-> line_offset, point |-> point]
AreaSymbol(color, patterns) == [color |-> color, patterns |-> patterns]

SkippingWarning == "skipping a fill pattern"
ShiftedRowsWarning == "assuming a \"shifted rows\" point pattern"

\* OcdAreaSymbolCommon ocd_area_common = {}, with the other outputs of
\* exportAreaSymbolCommon: pattern_symbol, the returned flags, the warnings.
EmptyAreaCommon ==
    [fill_on_V9 |-> 0, fill_color |-> 0,
     hatch_mode |-> HatchNone, hatch_color |-> 0, hatch_line_width |-> 0,
     hatch_dist |-> 0, hatch_angle_1 |-> 0, hatch_angle_2 |-> 0,
     structure_mode |-> StructureNone, structure_width |-> 0,
     structure_height |-> 0, structure_angle |-> 0,
     pattern_symbol |-> 0, flags |-> 0, warnings |-> <<>>]

\* case AreaSymbol::FillPattern::LinePattern of the loop of
\* exportAreaSymbolCommon.
exportLinePattern(c, pattern, e) ==
    LET color == convertColor(e.m, e.uses_reg, pattern.line_color)
    IN  IF c.hatch_mode = HatchNone
        THEN [c EXCEPT !.hatch_mode = HatchSingle,
                       !.hatch_color = color,
                       !.hatch_line_width = convertSize(pattern.line_width),
                       !.hatch_dist =
                           IF e.version <= 8
                           THEN convertSize(pattern.line_spacing - pattern.line_width)
                           ELSE convertSize(pattern.line_spacing),
                       !.hatch_angle_1 = convertRotation(pattern.angle),
                       !.flags = IF pattern.rotatable THEN 1 ELSE @]
        ELSE IF c.hatch_mode = HatchSingle /\ c.hatch_color = color
        THEN [c EXCEPT !.hatch_mode = HatchCross,
                       !.hatch_line_width =
                           TruncDiv(@ + convertSize(pattern.line_width), 2),
                       !.hatch_dist =
                           TruncDiv(@ + convertSize(pattern.line_spacing
                                                    - pattern.line_width), 2),
                       !.hatch_angle_2 = convertRotation(pattern.angle),
                       !.flags = IF pattern.rotatable THEN 1 ELSE @]
        ELSE [c EXCEPT !.warnings = Append(@, SkippingWarning)]

\* case AreaSymbol::FillPattern::PointPattern: the switch is on hatch_mode.
exportPointPattern(c, pattern, e) ==
    IF c.hatch_mode = StructureNone
    THEN [c EXCEPT !.structure_mode = StructureAlignedRows,
                   !.structure_width = convertSize(pattern.point_distance),
                   !.structure_height = convertSize(pattern.line_spacing),
                   !.structure_angle = convertRotation(pattern.angle),
                   !.pattern_symbol = pattern.point,
                   !.flags = IF pattern.rotatable THEN 1 ELSE @]
    ELSE IF c.hatch_mode = StructureAlignedRows
    THEN [c EXCEPT !.structure_mode = StructureShiftedRows,
                   !.warnings = Append(@, ShiftedRowsWarning),
                   !.structure_height =
                       IF pattern.line_offset # 0 THEN TruncDiv(@, 2) ELSE @,
                   !.structure_width =
                       IF pattern.line_offset # 0 THEN @ ELSE TruncDiv(@, 2)]
    ELSE [c EXCEPT !.warnings = Append(@, SkippingWarning)]

\* The loop of exportAreaSymbolCommon from pattern i on.
RECURSIVE exportFillPatterns(_, _, _, _)
exportFillPatterns(c, patterns, i, e) ==
    IF i > Len(patterns) THEN c
    ELSE exportFillPatterns(
             IF patterns[i].type = "LinePattern"
             THEN exportLinePattern(c, patterns[i], e)
             ELSE exportPointPattern(c, patterns[i], e),
             patterns, i + 1, e)

\* quint8 exportAreaSymbolCommon(area_symbol, ocd_area_common, pattern_symbol)
exportAreaSymbolCommon(area_symbol, e) ==
    exportFillPatterns(
        IF area_symbol.color >= 0
        THEN [EmptyAreaCommon EXCEPT
                 !.fill_on_V9 = 1,
                 !.fill_color = convertColor(e.m, e.uses_reg, area_symbol.color)]
        ELSE EmptyAreaCommon,
        area_symbol.patterns, 1, e)

LinePatterns ==
    { LinePattern(c, 20, 100, 0) : c \in {0, 1} }
    \cup { LinePattern(c, 45, 300, 45) : c \in {0, 1} }
PointPatterns == { PointPattern(1, 200, 600, 0, 0), PointPattern(2, 400, 800, 50, 90) }

AreaEnv(version) == [m |-> Map(2, <<>>, <<>>, 0), version |-> version, uses_reg |-> FALSE]

InitArea ==
    /\ NoExport
    /\ pc = "exportAreaSymbolCommon"
    /\ value \in { [symbol |-> AreaSymbol(color, patterns), version |-> v] :
                     color \in {-1, 1}, v \in {8, 9},
                     patterns \in SeqsUpTo(LinePatterns \cup PointPatterns, MaxPatterns) }
    /\ result = EmptyAreaCommon

\* result = exportAreaSymbolCommon(value.symbol, ...) under value.version
callExportAreaSymbolCommon ==
    /\ pc = "exportAreaSymbolCommon"
    /\ pc' = "returned"
    /\ result' = exportAreaSymbolCommon(value.symbol, AreaEnv(value.version))
    /\ warnings' = warnings \o result'.warnings
    /\ UNCHANGED <<exporterButWarnings, value>>

NextArea == callExportAreaSymbolCommon

SpecArea == InitArea /\ [][NextArea]_vars

PatternsOfType(type) ==
    SelectSeq(value.symbol.patterns, LAMBDA p : p.type = type)
Count(seq, x) == Cardinality({ k \in DOMAIN seq : seq[k] = x })

\* C24 as stated: the structure depends on the point patterns alone: none
\* gives no structure; the first gives aligned rows with its point symbol;
\* the second gives shifted rows with one warning and half the height (a
\* line offset) or half the width of the first; each further one is
\* dropped.
C24_StructureByPointPatterns ==
    LET points == PatternsOfType("PointPattern")
        width == convertSize(points[1].point_distance)
        height == convertSize(points[1].line_spacing)
    IN  pc = "returned" =>
          /\ points = <<>> => result.structure_mode = StructureNone
          /\ Len(points) >= 1 => result.pattern_symbol = points[1].point
          /\ Len(points) = 1 =>
                /\ result.structure_mode = StructureAlignedRows
                /\ result.structure_width = width
                /\ result.structure_height = height
          /\ Len(points) >= 2 =>
                /\ result.structure_mode = StructureShiftedRows
                /\ Count(result.warnings, ShiftedRowsWarning) = 1
                /\ result.structure_width =
                      IF points[2].line_offset # 0 THEN width ELSE TruncDiv(width, 2)
                /\ result.structure_height =
                      IF points[2].line_offset # 0 THEN TruncDiv(height, 2) ELSE height

\* C25 as stated: the first line pattern gives a single hatch; a second
\* line pattern of the same color gives a cross hatch with the average of
\* the widths and of the distances the two patterns would have alone under
\* this version, and both angles; a second line pattern of another color
\* and every line pattern after a cross hatch is dropped with one warning.
C25_CrossHatchAverage ==
    LET lines == PatternsOfType("LinePattern")
        e == AreaEnv(value.version)
        alone(k) == exportLinePattern(EmptyAreaCommon, lines[k], e)
        points == PatternsOfType("PointPattern")
    IN  pc = "returned" =>
          /\ lines = <<>> => result.hatch_mode = HatchNone
          /\ Len(lines) = 1 =>
                /\ result.hatch_mode = HatchSingle
                /\ result.hatch_line_width = alone(1).hatch_line_width
                /\ result.hatch_dist = alone(1).hatch_dist
                /\ result.hatch_angle_1 = alone(1).hatch_angle_1
          /\ (Len(lines) >= 2 /\ lines[1].line_color = lines[2].line_color) =>
                /\ result.hatch_mode = HatchCross
                /\ result.hatch_line_width =
                      TruncDiv(alone(1).hatch_line_width + alone(2).hatch_line_width, 2)
                /\ result.hatch_dist =
                      TruncDiv(alone(1).hatch_dist + alone(2).hatch_dist, 2)
                /\ result.hatch_angle_1 = alone(1).hatch_angle_1
                /\ result.hatch_angle_2 = alone(2).hatch_angle_1
                /\ points = <<>> =>
                      Count(result.warnings, SkippingWarning) = Len(lines) - 2
          /\ (Len(lines) = 2 /\ lines[1].line_color # lines[2].line_color) =>
                /\ result.hatch_mode = HatchSingle
                /\ points = <<>> => Count(result.warnings, SkippingWarning) = 1

\* ------------------------------------- combined symbols of two or three lines

\* The line attributes the two predicates read: every combination of
\* border, dashes and a width with color, without and with one of the two
\* features that exclude both roles.
LineKinds ==
    { [border |-> b, dashed |-> d, pointed_cap |-> x = 1, point_symbols |-> x = 2,
       filled |-> f] : b \in BOOLEAN, d \in BOOLEAN, f \in BOOLEAN, x \in 0..2 }

LineParts ==
    { <<PrivateLine(a), PrivateLine(b)>> : a \in LineKinds, b \in LineKinds }
    \cup { <<PrivateLine(a), PrivateLine(b), PrivateLine(c)>> :
             a \in LineKinds, b \in LineKinds, c \in LineKinds }

InitLines ==
    /\ NoExport
    /\ pc = "exportCombinedSymbol"
    /\ value \in { [combined |-> CombinedSym(<<0, 0>>, parts), version |-> v] :
                     parts \in LineParts, v \in {8, 9} }
    /\ result = context

\* result = the symbol numbers, records and warnings after
\* exportCombinedSymbol(file, value.combined).
callExportCombinedSymbol ==
    /\ pc = "exportCombinedSymbol"
    /\ pc' = "returned"
    /\ result' = exportCombinedSymbol(
                     context, 1, value.combined, 1, 2,
                     [m |-> Map(1, <<value.combined>>, <<>>, 0),
                      version |-> value.version, uses_reg |-> FALSE])
    /\ UNCHANGED <<exporter, value>>

NextLines == callExportCombinedSymbol

SpecLines == InitLines /\ [][NextLines]_vars

\* The ways to give the parts the roles main line, framing and, with three
\* parts, double line.
RoleAssignments ==
    LET parts == value.combined.parts
        n == Len(parts)
        line(k) == parts[k].sym
    IN  { r \in [main : 1..n, framing : 1..n, double_line : 0..n] :
            /\ r.main # r.framing
            /\ maybe_framing(line(r.framing))
            /\ IF n = 2 THEN r.double_line = 0
               ELSE /\ r.double_line \notin {0, r.main, r.framing}
                    /\ maybe_double_filling(line(r.double_line))
                    /\ ~line(r.main).line.border }

\* C26: a combined symbol of two or three lines is exported as one line
\* record, with framing and (three parts) double line, exactly when its
\* parts can take the roles main line, framing and double line; the main
\* line of the record is the main line of such an assignment.  Otherwise
\* no record is written and the 'unhandled' warning is added.
C26_LineRoles ==
    pc = "returned" =>
        IF RoleAssignments # {}
        THEN /\ Len(result.syms) = 1
             /\ result.syms[1].type = "Line"
             /\ result.syms[1].framing
             /\ result.syms[1].double_line = (Len(value.combined.parts) = 3)
             /\ \E r \in RoleAssignments :
                   result.syms[1].src.line = value.combined.parts[r.main].sym.line
             /\ UnhandledWarning \notin Range(result.warn)
        ELSE /\ result.syms = <<>>
             /\ UnhandledWarning \in Range(result.warn)

\* Three lines where the double line is the first part, the framing the
\* second and the main line is dashed: the first and the third part are
\* exchanged.
C26_Witness ==
    /\ pc = "returned"
    /\ Len(value.combined.parts) = 3
    /\ maybe_double_filling(value.combined.parts[1].sym)
    /\ maybe_framing(value.combined.parts[2].sym)
    /\ value.combined.parts[3].sym.line.dashed
    /\ Len(result.syms) = 1
    /\ result.syms[1].src.line = value.combined.parts[3].sym.line

\* ----------------------------------------------------------- exportTextData

\* Texts of every length around one chunk and around the 4096 code units
\* that 128 chunks hold, without newline, with one, and with a leading one.
PayloadTexts ==
    { Text(n + k, k, FALSE) : n \in (0..70) \cup (4060..4100) \cup {5000}, k \in {0, 1} }
    \cup { Text(n + 1, 1, TRUE) : n \in (0..3) \cup (28..32) \cup (4090..4096) }

InitText ==
    /\ NoExport
    /\ pc = "exportTextData"
    /\ value \in PayloadTexts
    /\ result = [size |-> 0, text_size |-> 0, zero_from |-> 0, truncated |-> FALSE]

\* result = exportTextData(object, sizeof(Ocd::OcdPoint32) * 8, 1024 / 8)
\* for an object with the text value, as exportObjectCommon calls it.
callExportTextData ==
    /\ pc = "exportTextData"
    /\ pc' = "returned"
    /\ result' = exportTextData(value, TextChunkSize, MaxTextChunks)
    /\ warnings' = IF result'.truncated
                   THEN Append(warnings, TruncationWarning)
                   ELSE warnings
    /\ UNCHANGED <<exporterButWarnings, value>>

NextText == callExportTextData

SpecText == InitText /\ [][NextText]_vars

\* C27: the payload of exportTextData (chunks of 64 bytes, at most 128) has
\* a length that is a multiple of 64, at most 8192 and at least the length
\* of the encoded text it holds; all bytes after the text are zero; the
\* text is cut, with exactly one warning, iff its encoding has 8192 bytes
\* or more; the text that is kept is a whole number of 2 byte code units.
C27_TextPayload ==
    pc = "returned" =>
        LET encoded == 2 * ocdTextLength(value)
        IN  /\ result.size % TextChunkSize = 0
            /\ result.size <= TextChunkSize * MaxTextChunks
            /\ result.size >= result.text_size
            /\ result.zero_from = result.text_size
            /\ result.truncated <=> encoded >= TextChunkSize * MaxTextChunks
            /\ ~result.truncated => result.text_size = encoded
            /\ result.truncated => result.text_size < encoded
            /\ result.text_size % 2 = 0
            /\ warnings = IF result.truncated THEN <<TruncationWarning>> ELSE <<>>

\* A text of exactly 4096 code units (8192 bytes) is cut to 4095 code
\* units, with the warning, and followed by one zero code unit.
C27_Witness ==
    /\ pc = "returned"
    /\ ocdTextLength(value) = 4096
    /\ result.truncated
    /\ result.text_size = 8190
    /\ result.size = 8192
    /\ warnings = <<TruncationWarning>>

\* C30 as stated: the payload of a text that is not cut has at least one
\* zero code unit after the text, whatever the length of the text.
C30_ZeroTerminated ==
    (pc = "returned" /\ ~result.truncated) => result.size >= result.text_size + 2

\* ---------------------------------------------------------- notes, version 8

\* C29 as stated: in a version 8 export, the info_size of the header is the
\* number of bytes appended for the notes, the kept notes and one zero
\* byte, for notes of any length.
C29_InfoSize ==
    (format = "V8" /\ (AfterSetup \/ pc = "FileFormatException")
       /\ "exportSetup" \in Range(phases)) =>
        /\ file.info_size = file.info_bytes
        /\ map.notes_len > 0 => file.info_bytes = notesV8(map.notes_len).kept + 1

\* -------------------------------------------------------------- convertSize

\* Sizes around zero and around the sizes whose tenth leaves 16 bits.
SizeValues ==
    ((-10 * Int15 - 25)..(-10 * Int15 + 5)) \cup ((-30)..30)
    \cup ((10 * Int15 - 25)..(10 * Int15 + 5))

InitSize ==
    /\ NoExport
    /\ pc = "convertSize"
    /\ value \in { [a |-> a, b |-> b] : a \in SizeValues, b \in (-30)..30 }
                 \cup { [a |-> a, b |-> a + d] : a \in SizeValues, d \in 0..10 }
    /\ result = [a |-> 0, b |-> 0]

\* result = convertSize(value.a), convertSize(value.b)
callConvertSize ==
    /\ pc = "convertSize"
    /\ pc' = "returned"
    /\ result' = [a |-> convertSize(value.a), b |-> convertSize(value.b)]
    /\ UNCHANGED <<exporter, value>>

NextSize == callConvertSize

SpecSize == InitSize /\ [][NextSize]_vars

\* C28 as stated: for all 32 bit sizes a <= b, convertSize(a) <=
\* convertSize(b), and convertSize(v) is (v + 5) / 10 rounded toward zero.
C28_Monotonic ==
    pc = "returned" =>
        /\ value.a <= value.b => result.a <= result.b
        /\ result.a = TruncDiv(value.a + 5, 10)
        /\ result.b = TruncDiv(value.b + 5, 10)

====
